---- MODULE Spec2Model ----
(***************************************************************************)
(* KeyBridge BLE keyboard bridge client (src/client/hid_bridge.py).        *)
(*                                                                         *)
(* The model follows the single asyncio coroutine chain of main():         *)
(* scan_and_connect, then one of text mode (send_text) or capture mode     *)
(* (the pynput listener thread feeding two queues, and the consumer loop), *)
(* then the finally-block disconnect.  The BLE transport is the            *)
(* environment: it acknowledges or fails the write that is in flight, and  *)
(* it may drop the link.  Every transport call the client makes is         *)
(* appended to `log`, so ordering and pacing are properties of the log.    *)
(***************************************************************************)
EXTENDS Integers, Sequences, FiniteSets, TLC

(***************************************************************************)
(* Program constants.                                                      *)
(***************************************************************************)
ATT_HEADER == 3
MAX_CHUNK == 500
DEFAULT_CHUNK_SIZE == 18
LARGE_PASTE == 1000
MEDIUM_PASTE == 500
LARGE_DELAY_MS == 5
MEDIUM_DELAY_MS == 2
SLOW_DELAY_MS == 50

\* send_keys(delay=0.05), send_key_combo(delay=0.1), the sleeps of the Linux
\* save operations, in milliseconds; the keycode of Enter
KEY_DELAY_MS == 50
COMBO_DELAY_MS == 100
HEREDOC_DELAY_MS == 100
BINARY_END_DELAY_MS == 300
ENTER == 40

MOD_LCTRL == 1
MOD_LSHIFT == 2
MOD_LALT == 4
MOD_LGUI == 8
MOD_RCTRL == 16
MOD_RSHIFT == 32
MOD_RALT == 64
MOD_RGUI == 128

(***************************************************************************)
(* Bounds of the model.                                                    *)
(***************************************************************************)
\* longest text, in characters, that is enumerated over every code point
MaxTextLen == 2
\* number of key events the listener thread delivers in one capture run
MaxEvents == 3
\* longest file name that is enumerated over every character of the alphabet
MaxNameLen == 2
\* the wall clock, in milliseconds, runs from ClockStart up to MaxClock
ClockStart == 9
MaxClock == 11
\* number of Linux save invocations whose delimiters one behaviour records
MaxInvocations == 2

Min(a, b) == IF a < b THEN a ELSE b

(***************************************************************************)
(* Text payloads.  A text is a sequence of Unicode scalar values; the      *)
(* four code points below take 1, 2, 3 and 4 bytes in UTF-8.               *)
(***************************************************************************)
CodePoints == {65, 233, 8364, 128512}

ShortTexts == UNION {[1..n -> CodePoints] : n \in 0..MaxTextLen}

\* printable ASCII whose value depends on the position, so that a lost,
\* duplicated or reordered byte changes the payload
AsciiPattern(n) == [k \in 1..n |-> 32 + (k % 95)]

LongTexts ==
    {AsciiPattern(n) : n \in {MEDIUM_PASTE, MEDIUM_PASTE + 1, LARGE_PASTE,
                              LARGE_PASTE + 1, 3 * MAX_CHUNK}}
    \cup {[k \in 1..(LARGE_PASTE \div 3 + 1) |-> 8364],
          [k \in 1..(MEDIUM_PASTE \div 2 + 1) |-> 233]}

\* MTU values the link can negotiate: the ATT minimum of the wire protocol
\* (23), the cap boundary (503) and the BLE maximum (517); 4 and 5 are the
\* smallest values of the documented domain M >= 4 (chunk sizes 1 and 2).
MTUs == {4, 5, 23, 503, 517}
BigMTUs == {23, 503, 517}

(***************************************************************************)
(* encoded = text.encode('utf-8'), byte by byte.                           *)
(***************************************************************************)
EncodeChar(cp) ==
    IF cp < 128 THEN <<cp>>
    ELSE IF cp < 2048 THEN <<192 + (cp \div 64), 128 + (cp % 64)>>
    ELSE IF cp < 65536 THEN
        <<224 + (cp \div 4096), 128 + ((cp \div 64) % 64), 128 + (cp % 64)>>
    ELSE <<240 + (cp \div 262144), 128 + ((cp \div 4096) % 64),
           128 + ((cp \div 64) % 64), 128 + (cp % 64)>>

\* the bytes of the characters s[lo..hi]
RECURSIVE Utf8EncodeRange(_, _, _)
Utf8EncodeRange(s, lo, hi) ==
    IF lo > hi THEN <<>>
    ELSE IF lo = hi THEN EncodeChar(s[lo])
    ELSE \* the midpoint is bound once for both halves
         LET halves == [mid \in {(lo + hi) \div 2} |->
                           Utf8EncodeRange(s, lo, mid) \o Utf8EncodeRange(s, mid + 1, hi)]
         IN halves[(lo + hi) \div 2]

Utf8Encode(s) == Utf8EncodeRange(s, 1, Len(s))

(***************************************************************************)
(* scan_and_connect: the chunk size of a connection.                       *)
(***************************************************************************)
ChunkSizeNoHeader(m) == Min(m - (ATT_HEADER + 1), MAX_CHUNK)
ChunkSizeUncapped(m) == m - ATT_HEADER

ChunkSizeFor(m) == Min(m - ATT_HEADER, MAX_CHUNK)

(***************************************************************************)
(* send_text: the chunking loop and its pacing.                            *)
(***************************************************************************)
\* range(0, n, step) still has the element i
RangeHas(i, n, step) == IF step > 0 THEN i < n ELSE FALSE

\* encoded[i:i + size]
SliceOverlapping(enc, i, size) == SubSeq(enc, Min(i, Len(enc)) + 1, Min(i + size + 1, Len(enc)))

Slice(enc, i, size) == SubSeq(enc, i + 1, Min(i + size, Len(enc)))

\* the if/elif after each chunk write; 0 stands for "no sleep call"
PacingDelayInclusive(L) ==
    IF L >= LARGE_PASTE THEN LARGE_DELAY_MS
    ELSE IF L >= MEDIUM_PASTE THEN MEDIUM_DELAY_MS
    ELSE 0

PacingDelay(L) ==
    IF L > LARGE_PASTE THEN LARGE_DELAY_MS
    ELSE IF L > MEDIUM_PASTE THEN MEDIUM_DELAY_MS
    ELSE 0

(***************************************************************************)
(* Keycode tables (MAC_KEY_TO_HID, SHIFT_CHARS) and str.lower on A-Z.      *)
(* "grave" stands for the one-character string of the backtick, which a    *)
(* TLA+ string cannot hold.                                                *)
(***************************************************************************)
MAC_KEY_TO_HID ==
    "a" :> 4 @@ "b" :> 5 @@ "c" :> 6 @@ "d" :> 7 @@ "e" :> 8 @@ "f" :> 9 @@
    "g" :> 10 @@ "h" :> 11 @@ "i" :> 12 @@ "j" :> 13 @@ "k" :> 14 @@
    "l" :> 15 @@ "m" :> 16 @@ "n" :> 17 @@ "o" :> 18 @@ "p" :> 19 @@
    "q" :> 20 @@ "r" :> 21 @@ "s" :> 22 @@ "t" :> 23 @@ "u" :> 24 @@
    "v" :> 25 @@ "w" :> 26 @@ "x" :> 27 @@ "y" :> 28 @@ "z" :> 29 @@
    "1" :> 30 @@ "2" :> 31 @@ "3" :> 32 @@ "4" :> 33 @@ "5" :> 34 @@
    "6" :> 35 @@ "7" :> 36 @@ "8" :> 37 @@ "9" :> 38 @@ "0" :> 39 @@
    "Return" :> 40 @@ "Escape" :> 41 @@ "BackSpace" :> 42 @@ "Tab" :> 43 @@
    "space" :> 44 @@ " " :> 44 @@ "enter" :> 40 @@ "backspace" :> 42 @@
    "tab" :> 43 @@ "-" :> 45 @@ "=" :> 46 @@ "[" :> 47 @@ "]" :> 48 @@
    "\\" :> 49 @@ ";" :> 51 @@ "'" :> 52 @@ "grave" :> 53 @@ "," :> 54 @@
    "." :> 55 @@ "/" :> 56 @@ "F1" :> 58 @@ "F2" :> 59 @@ "F3" :> 60 @@
    "F4" :> 61 @@ "F5" :> 62 @@ "F6" :> 63 @@ "F7" :> 64 @@ "F8" :> 65 @@
    "F9" :> 66 @@ "F10" :> 67 @@ "F11" :> 68 @@ "F12" :> 69 @@
    "Insert" :> 73 @@ "Home" :> 74 @@ "Page_Up" :> 75 @@ "Delete" :> 76 @@
    "End" :> 77 @@ "Page_Down" :> 78 @@ "Right" :> 79 @@ "Left" :> 80 @@
    "Down" :> 81 @@ "Up" :> 82

SHIFT_CHARS ==
    "!" :> "1" @@ "@" :> "2" @@ "#" :> "3" @@ "$" :> "4" @@ "%" :> "5" @@
    "^" :> "6" @@ "&" :> "7" @@ "*" :> "8" @@ "(" :> "9" @@ ")" :> "0" @@
    "_" :> "-" @@ "+" :> "=" @@ "{" :> "[" @@ "}" :> "]" @@ "|" :> "\\" @@
    ":" :> ";" @@ "\"" :> "'" @@ "~" :> "grave" @@ "<" :> "," @@ ">" :> "." @@
    "?" :> "/" @@ "A" :> "a" @@ "B" :> "b" @@ "C" :> "c" @@ "D" :> "d" @@
    "E" :> "e" @@ "F" :> "f" @@ "G" :> "g" @@ "H" :> "h" @@ "I" :> "i" @@
    "J" :> "j" @@ "K" :> "k" @@ "L" :> "l" @@ "M" :> "m" @@ "N" :> "n" @@
    "O" :> "o" @@ "P" :> "p" @@ "Q" :> "q" @@ "R" :> "r" @@ "S" :> "s" @@
    "T" :> "t" @@ "U" :> "u" @@ "V" :> "v" @@ "W" :> "w" @@ "X" :> "x" @@
    "Y" :> "y" @@ "Z" :> "z"

LowerTable ==
    "A" :> "a" @@ "B" :> "b" @@ "C" :> "c" @@ "D" :> "d" @@ "E" :> "e" @@
    "F" :> "f" @@ "G" :> "g" @@ "H" :> "h" @@ "I" :> "i" @@ "J" :> "j" @@
    "K" :> "k" @@ "L" :> "l" @@ "M" :> "m" @@ "N" :> "n" @@ "O" :> "o" @@
    "P" :> "p" @@ "Q" :> "q" @@ "R" :> "r" @@ "S" :> "s" @@ "T" :> "t" @@
    "U" :> "u" @@ "V" :> "v" @@ "W" :> "w" @@ "X" :> "x" @@ "Y" :> "y" @@
    "Z" :> "z"

Lookup(table, k, default) == IF k \in DOMAIN table THEN table[k] ELSE default

\* one bit of the modifier byte: m & b, m | b, m & ~b for a single-bit b
HasBit(m, b) == (m \div b) % 2 = 1
SetBit(m, b) == IF HasBit(m, b) THEN m ELSE m + b
ClearBit(m, b) == IF HasBit(m, b) THEN m - b ELSE m

(***************************************************************************)
(* A pynput key: a member of keyboard.Key (enum, with a name and no char)  *)
(* or a KeyCode (with a char, "" standing for char = None).                *)
(***************************************************************************)
EnumKey(name) == [enum |-> TRUE, v |-> name]
CharKey(c) == [enum |-> FALSE, v |-> c]

\* the if/elif chain at the head of on_press and in on_release
ModifierBit(key) ==
    IF ~key.enum THEN 0
    ELSE CASE key.v \in {"ctrl_l", "ctrl_r"} -> MOD_LCTRL
           [] key.v \in {"shift_l", "shift"} -> MOD_LSHIFT
           [] key.v = "shift_r" -> MOD_RSHIFT
           [] key.v \in {"alt_l", "alt"} -> MOD_LALT
           [] key.v = "alt_r" -> MOD_RALT
           [] key.v \in {"cmd_l", "cmd"} -> MOD_LGUI
           [] key.v = "cmd_r" -> MOD_RGUI
           [] OTHER -> 0

\* "Handle special keys explicitly"
SpecialKeycodeSkipped(key) == 0

SpecialKeycode(key) ==
    IF ~key.enum THEN 0
    ELSE CASE key.v = "space" -> 44
           [] key.v = "enter" -> 40
           [] key.v = "backspace" -> 42
           [] key.v = "tab" -> 43
           [] key.v = "esc" -> 41
           [] key.v = "delete" -> 76
           [] key.v = "up" -> 82
           [] key.v = "down" -> 81
           [] key.v = "left" -> 80
           [] key.v = "right" -> 79
           [] key.v = "home" -> 74
           [] key.v = "end" -> 77
           [] key.v = "page_up" -> 75
           [] key.v = "page_down" -> 78
           [] OTHER -> 0

NoPush(m) == [mods |-> m, push |-> "none", kmods |-> 0, keycode |-> 0, text |-> <<>>]
PushText(m, t) == [mods |-> m, push |-> "text", kmods |-> 0, keycode |-> 0, text |-> t]
PushKey(m, km, kc) == [mods |-> m, push |-> "key", kmods |-> km, keycode |-> kc, text |-> <<>>]

\* the modifier branch of on_press: set the bit and return
ModifierPressEnqueues(key, m) ==
    PushKey(SetBit(m, ModifierBit(key)), SetBit(m, ModifierBit(key)), 0)

ModifierPress(key, m) == NoPush(SetBit(m, ModifierBit(key)))

\* "if clipboard:" on the value of get_clipboard(): neither None nor ""
ClipboardTruthyAlways(clip) == clip.ok

ClipboardTruthy(clip) == clip.ok /\ clip.text # <<>>

\* "if keycode:" before each put_nowait on the key queue
KeycodeFoundAlways(kc) == TRUE

KeycodeFound(kc) == kc # 0

\* MAC_KEY_TO_HID.get(char_lower, 0)
KeycodeOfOrFirst(name) == Lookup(MAC_KEY_TO_HID, name, 4)

KeycodeOf(name) == Lookup(MAC_KEY_TO_HID, name, 0)

\* current_mods |= MOD_LSHIFT for a character of the shift table
AddShiftDropped(m) == m

AddShift(m) == SetBit(m, MOD_LSHIFT)

\* on_press(key) with the modifier byte m and the clipboard clip: the new
\* modifier byte and what is put on which queue
OnPress(key, m, clip) ==
    IF ModifierBit(key) # 0 THEN ModifierPress(key, m)
    ELSE
    LET cmd_pressed == HasBit(m, MOD_LGUI) \/ HasBit(m, MOD_RGUI)
        remapped == IF cmd_pressed
                    THEN SetBit(ClearBit(ClearBit(m, MOD_LGUI), MOD_RGUI), MOD_LCTRL)
                    ELSE m
        special == SpecialKeycode(key)
        \* key.char for a KeyCode, key.name for any other enum member
        char == key.v
        shifted == char \in DOMAIN SHIFT_CHARS
        base == IF shifted THEN SHIFT_CHARS[char] ELSE char
        \* current_mods = modifiers: the character path starts again from
        \* the live modifier byte
        cmods == IF shifted THEN AddShift(m) ELSE m
        \* len(char) == 1 exactly for KeyCode characters
        lower == IF ~key.enum THEN Lookup(LowerTable, base, base) ELSE base
        keycode == KeycodeOf(lower)
    IN IF cmd_pressed /\ ~key.enum /\ key.v = "v"
       THEN IF ClipboardTruthy(clip) THEN PushText(m, clip.text) ELSE NoPush(m)
       ELSE IF cmd_pressed /\ ~key.enum /\ key.v = "c" THEN NoPush(m)
       ELSE IF KeycodeFound(special) THEN PushKey(m, remapped, special)
       ELSE IF char # "" /\ KeycodeFound(keycode) THEN PushKey(m, cmods, keycode)
       ELSE NoPush(m)

\* on_release(key)
OnRelease(key, m) == IF ModifierBit(key) # 0 THEN ClearBit(m, ModifierBit(key)) ELSE m

VARIABLES
    args,        \* command line: [mode, text, slow]
    mtu,         \* MTU the link negotiates (client.mtu_size after connect)
    pc,          \* position of the main coroutine
    exc,         \* exception propagating out of the coroutine, or "none"
    exit_code,   \* process exit status, -1 while running
    client,      \* self.client: "none" or "obj"
    connected,   \* self.client.is_connected
    cb_pending,  \* the link dropped and _on_disconnect has not run yet
    chunk_size,  \* self.chunk_size
    running,     \* self.running
    key_queue,   \* self.key_queue
    text_queue,  \* self.text_queue
    modifiers,   \* capture_mode's nonlocal modifiers
    listener,    \* pynput listener: "none", "started", "stopped"
    st,          \* frame of the send_text call in progress
    cur,         \* capture loop: the item taken from a queue
    calls,       \* history: one record per send_text call
    log,         \* history: every transport call and sleep, in issue order
    inflight,    \* log indices of writes whose await has not returned
    received,    \* log indices of writes the device got, in arrival order
    failed,      \* log indices of writes that raised
    nevents,     \* key events delivered to the listener so far
    disconnects, \* history: calls of the transport's disconnect()
    held,        \* listener specification: the modifier keys that are down
    event,       \* listener specification: the key event to be delivered
    job,         \* save operations: [os, binary, filename, lines] of the call
    now,         \* save operations: time.time() * 1000, the wall clock
    safe_filename, \* save operations: the local safe_filename
    delimiter,   \* save operations: the local delimiter (Linux)
    delimiters,  \* history: the delimiters of the Linux saves so far
    script,      \* save operations: the awaited steps still to run
    stop_requested, \* history: SIGINT or a disconnect notification was handled
    sending,     \* menu bar app: self.sending
    loop,        \* menu bar app: self.loop, "none" until run_loop assigned it
    flows        \* menu bar app: the _send_clipboard_flow coroutines given to the loop

vars == <<args, mtu, pc, exc, exit_code, client, connected, cb_pending,
          chunk_size, running, key_queue, text_queue, modifiers, listener,
          st, cur, calls, log, inflight, received, failed, nevents,
          held, event, job, now, safe_filename, delimiter, delimiters,
          disconnects, script, stop_requested, sending, loop, flows>>

sessionVars == <<client, connected, cb_pending, chunk_size>>
captureVars == <<key_queue, text_queue, modifiers, listener, cur, nevents>>
wireVars == <<log, inflight, received, failed>>
keyVars == <<held, event>>
menuVars == <<sending, loop, flows>>
saveVars == <<job, now, safe_filename, delimiter, delimiters, script>>

NoFrame == [encoded |-> <<>>, i |-> 0, slow |-> FALSE, w |-> 0,
            ret |-> "none", item |-> 0]
NoItem == [kind |-> "none", id |-> 0, mods |-> 0, keycode |-> 0, text |-> <<>>]

WriteEvent(ch, data, resp, call, item) ==
    [op |-> "write", ch |-> ch, data |-> data, resp |-> resp, ms |-> 0,
     call |-> call, item |-> item]
SleepEvent(ms, call) ==
    [op |-> "sleep", ch |-> "none", data |-> <<>>, resp |-> FALSE, ms |-> ms,
     call |-> call, item |-> 0]

NoClip == [ok |-> FALSE, text |-> <<>>]
NoJob == [os |-> "none", binary |-> FALSE, filename |-> <<>>, lines |-> <<>>]
NoEvent == [kind |-> "none", key |-> [enum |-> FALSE, v |-> ""], clip |-> NoClip]

SetResult(cs, r) == [cs EXCEPT ![Len(cs)].result = r]

(***************************************************************************)
(* Initial states: a fresh KeyBridgeClient (__init__) and the inputs of    *)
(* the run (command line, and the MTU the link will negotiate).            *)
(***************************************************************************)
InitClient ==
    /\ pc = "main_connect"
    /\ exc = "none"
    /\ exit_code = -1
    /\ client = "none"
    /\ connected = FALSE
    /\ cb_pending = FALSE
    /\ chunk_size = DEFAULT_CHUNK_SIZE
    /\ running = FALSE
    /\ key_queue = <<>>
    /\ text_queue = <<>>
    /\ modifiers = 0
    /\ listener = "none"
    /\ st = NoFrame
    /\ cur = NoItem
    /\ calls = <<>>
    /\ log = <<>>
    /\ inflight = {}
    /\ received = <<>>
    /\ failed = {}
    /\ nevents = 0
    /\ disconnects = 0
    /\ stop_requested = FALSE
    /\ held = {}
    /\ event = NoEvent
    /\ job = NoJob
    /\ now = ClockStart
    /\ safe_filename = <<>>
    /\ delimiter = <<>>
    /\ delimiters = <<>>
    /\ script = <<>>
    /\ sending = FALSE
    /\ loop = "none"
    /\ flows = <<>>

SendInputs ==
    {<<t, s, m>> : t \in ShortTexts, s \in BOOLEAN, m \in MTUs}
    \cup {<<t, FALSE, m>> : t \in LongTexts, m \in BigMTUs}

InitSend ==
    /\ InitClient
    /\ \E inp \in SendInputs :
          /\ args = [mode |-> "text", text |-> inp[1], slow |-> inp[2]]
          /\ mtu = inp[3]

(***************************************************************************)
(* scan_and_connect, called from main.  A False result makes main call     *)
(* sys.exit(1), which unwinds through main's finally block.                *)
(***************************************************************************)
\* self.chunk_size after scan_and_connect: assigned only behind a connect()
\* that returned
ChunkSizeAfterAnyConnect(cs, ok, m) == ChunkSizeFor(m)

ChunkSizeAfter(cs, ok, m) == IF ok THEN ChunkSizeFor(m) ELSE cs

ScanAndConnect ==
    /\ pc = "main_connect"
    /\ \E found \in BOOLEAN, ok \in BOOLEAN :
          IF ~found
          THEN /\ exc' = "SystemExit"
               /\ pc' = "main_finally"
               /\ UNCHANGED sessionVars
          ELSE IF ~ok
          THEN /\ client' = "obj"
               /\ chunk_size' = ChunkSizeAfter(chunk_size, FALSE, mtu)
               /\ exc' = "SystemExit"
               /\ pc' = "main_finally"
               /\ UNCHANGED <<connected, cb_pending>>
          ELSE /\ client' = "obj"
               /\ connected' = TRUE
               /\ chunk_size' = ChunkSizeAfter(chunk_size, TRUE, mtu)
               /\ pc' = "main_dispatch"
               /\ UNCHANGED <<exc, cb_pending>>
    /\ UNCHANGED <<stop_requested, disconnects, saveVars, menuVars, keyVars, args, mtu, exit_code, running, captureVars, st, calls, wireVars>>

(***************************************************************************)
(* send_text.  A call runs without suspension up to its first await, so    *)
(* the caller's step and the first write are one step.                     *)
(***************************************************************************)
\* where an exception raised inside send_text lands: capture_mode's
\* try/finally when called from the consumer loop, else main's finally
RaiseTarget(ret) == IF ret = "cap_top" THEN "cap_finally" ELSE "main_finally"

\* the await of line 203/195: the coroutine resumes when the write returned
WriteReturnedNoAwait(w) == TRUE

WriteReturned(w) == w \notin inflight

\* the exception of a failed write leaves the await; send_text has no handler
WriteRaisedSwallowed(w) == FALSE

WriteRaised(w) == w \in failed

\* the test of send_text's for loop: the range alone, self.running is not
\* looked at
MoreChunksWhileRunning(i, n, step) == running /\ RangeHas(i, n, step)

MoreChunks(i, n, step) == RangeHas(i, n, step)

\* the loop of send_text at index i: write the next chunk, or return
Iterate(fr, i, cs) ==
    LET step == IF fr.slow THEN 1 ELSE chunk_size
    IN IF MoreChunks(i, Len(fr.encoded), step)
       THEN /\ log' = Append(log, WriteEvent("text", Slice(fr.encoded, i, step),
                                             TRUE, Len(cs), fr.item))
            /\ inflight' = inflight \cup {Len(log) + 1}
            /\ st' = [fr EXCEPT !.i = i, !.w = Len(log) + 1]
            /\ calls' = cs
            /\ pc' = "st_await"
            /\ exc' = exc
       ELSE /\ calls' = SetResult(cs, "returned")
            /\ st' = NoFrame
            /\ pc' = fr.ret
            /\ exc' = exc
            /\ UNCHANGED <<log, inflight>>

\* if not self.client or not self.client.is_connected
NotConnectedIgnored == FALSE

NotConnected == client = "none" \/ ~connected

\* sets pc, exc, st, calls, log, inflight
SendTextCall(t, slow, ret, item) ==
    IF NotConnected
    THEN /\ calls' = Append(calls, [text |-> t, slow |-> slow, size |-> -1,
                                    result |-> "not_connected", item |-> item])
         /\ pc' = ret
         /\ UNCHANGED <<exc, st, log, inflight>>
    ELSE \E enc \in {Utf8Encode(t)} :
         LET cs == Append(calls, [text |-> t, slow |-> slow, size |-> Len(enc),
                                  result |-> "running", item |-> item])
             fr == [encoded |-> enc, i |-> 0, slow |-> slow, w |-> 0,
                    ret |-> ret, item |-> item]
         IN IF ~slow /\ chunk_size = 0
            THEN \* total_chunks divides by chunk_size
                 /\ calls' = SetResult(cs, "raised")
                 /\ exc' = "ZeroDivisionError"
                 /\ pc' = RaiseTarget(ret)
                 /\ UNCHANGED <<st, log, inflight>>
            ELSE Iterate(fr, 0, cs)

\* the sleep after a chunk write, 0 for none
SleepBetweenChunksOnly(fr) ==
    IF fr.slow THEN SLOW_DELAY_MS
    ELSE IF RangeHas(fr.i + chunk_size, Len(fr.encoded), chunk_size)
    THEN PacingDelay(Len(fr.encoded))
    ELSE 0

SleepAfterWrite(fr) ==
    IF fr.slow THEN SLOW_DELAY_MS ELSE PacingDelay(Len(fr.encoded))

\* write_gatt_char returned or raised
AfterWrite ==
    /\ pc = "st_await"
    /\ WriteReturned(st.w)
    /\ IF WriteRaised(st.w)
       THEN /\ calls' = SetResult(calls, "raised")
            /\ exc' = "BleakError"
            /\ pc' = RaiseTarget(st.ret)
            /\ st' = NoFrame
            /\ UNCHANGED <<log, inflight>>
       ELSE IF SleepAfterWrite(st) > 0
       THEN /\ log' = Append(log, SleepEvent(SleepAfterWrite(st), Len(calls)))
            /\ pc' = "st_sleep"
            /\ UNCHANGED <<exc, st, calls, inflight>>
       ELSE Iterate(st, st.i + (IF st.slow THEN 1 ELSE chunk_size), calls)
    /\ UNCHANGED <<stop_requested, disconnects, saveVars, menuVars, keyVars, args, mtu, exit_code, sessionVars, running, captureVars,
                   received, failed>>

\* asyncio.sleep returned
SleepDone ==
    /\ pc = "st_sleep"
    /\ Iterate(st, st.i + (IF st.slow THEN 1 ELSE chunk_size), calls)
    /\ UNCHANGED <<stop_requested, disconnects, saveVars, menuVars, keyVars, args, mtu, exit_code, sessionVars, running, captureVars,
                   received, failed>>

(***************************************************************************)
(* The transport (bleak and the BLE link).                                 *)
(***************************************************************************)
\* the write reached the device and the call returns
TransportAck ==
    /\ connected
    /\ \E k \in inflight :
          /\ inflight' = inflight \ {k}
          /\ received' = Append(received, k)
    /\ UNCHANGED <<stop_requested, disconnects, saveVars, menuVars, keyVars, args, mtu, pc, exc, exit_code, sessionVars, running,
                   captureVars, st, calls, log, failed>>

\* the write raises (BleakError: not connected, or a GATT error)
TransportFail ==
    /\ \E k \in inflight :
          /\ inflight' = inflight \ {k}
          /\ failed' = failed \cup {k}
    /\ UNCHANGED <<stop_requested, disconnects, saveVars, menuVars, keyVars, args, mtu, pc, exc, exit_code, sessionVars, running,
                   captureVars, st, calls, log, received>>

\* the link drops; bleak schedules the disconnected callback on the loop
LinkLost ==
    /\ connected
    /\ pc \notin {"main_finally", "exited"}
    /\ connected' = FALSE
    /\ cb_pending' = TRUE
    /\ UNCHANGED <<stop_requested, disconnects, saveVars, menuVars, keyVars, args, mtu, pc, exc, exit_code, client, chunk_size, running,
                   captureVars, st, calls, wireVars>>

\* positions where the coroutine is suspended and loop callbacks can run
AwaitPcs == {"st_await", "st_sleep", "cap_key_wait", "cap_hid_await",
             "save_key_await", "save_sleep", "loop_send"}

\* _on_disconnect
OnDisconnect ==
    /\ cb_pending
    /\ pc \in AwaitPcs
    /\ running' = FALSE
    /\ stop_requested' = TRUE
    /\ cb_pending' = FALSE
    /\ UNCHANGED <<disconnects, saveVars, menuVars, keyVars, args, mtu, pc, exc, exit_code, client, connected, chunk_size,
                   captureVars, st, calls, wireVars>>

(***************************************************************************)
(* main.                                                                   *)
(***************************************************************************)
MainTextMode ==
    /\ pc = "main_dispatch"
    /\ args.mode = "text"
    /\ SendTextCall(args.text, args.slow, "main_finally", 0)
    /\ UNCHANGED <<stop_requested, disconnects, saveVars, menuVars, keyVars, args, mtu, exit_code, sessionVars, running, captureVars,
                   received, failed>>

\* disconnect(): the transport's disconnect is called only on a client
\* that exists and is connected
DisconnectUnguarded(cl, conn) == [transport |-> TRUE, connected |-> FALSE]

Disconnect(cl, conn) ==
    [transport |-> cl # "none" /\ conn,
     connected |-> IF cl # "none" /\ conn THEN FALSE ELSE conn]

\* finally: await client.disconnect(); then the process ends
MainFinally ==
    /\ pc = "main_finally"
    /\ LET d == Disconnect(client, connected)
       IN /\ connected' = d.connected
          /\ disconnects' = IF d.transport THEN disconnects + 1 ELSE disconnects
    /\ pc' = "exited"
    /\ exit_code' = IF exc = "none" THEN 0 ELSE 1
    /\ UNCHANGED <<stop_requested, saveVars, menuVars, keyVars, args, mtu, exc, client, cb_pending,
                   chunk_size, running, captureVars, st, calls, wireVars>>

NextSend ==
    \/ ScanAndConnect
    \/ MainTextMode
    \/ AfterWrite
    \/ SleepDone
    \/ TransportAck
    \/ TransportFail
    \/ LinkLost
    \/ OnDisconnect
    \/ MainFinally

SpecSend == InitSend /\ [][NextSend]_vars

(***************************************************************************)
(* capture_mode: the consumer loop.                                        *)
(***************************************************************************)
TextItem(id, t) == [kind |-> "text", id |-> id, mods |-> 0, keycode |-> 0, text |-> t]
KeyItem(id, m, kc) == [kind |-> "key", id |-> id, mods |-> m, keycode |-> kc, text |-> <<>>]

\* asyncio.Queue.get / get_nowait on a non-empty queue: the oldest entry
QueueGetNewest(q) == [item |-> q[Len(q)], rest |-> SubSeq(q, 1, Len(q) - 1)]

QueueGet(q) == [item |-> Head(q), rest |-> Tail(q)]

\* one iteration of the loop body: get_nowait on the text queue first, and
\* only on QueueEmpty the timed get on the key queue
PollKeysFirst(tq, kq) == IF tq # <<>> /\ kq = <<>> THEN "text" ELSE "key_wait"

Poll(tq, kq) == IF tq # <<>> THEN "text" ELSE "key_wait"

\* capture_mode up to the first loop test: running = True, modifiers = 0,
\* listener.start()
MainCaptureMode ==
    /\ pc = "main_dispatch"
    /\ args.mode = "capture"
    /\ running' = TRUE
    /\ modifiers' = 0
    /\ listener' = "started"
    /\ pc' = "cap_top"
    /\ UNCHANGED <<stop_requested, disconnects, saveVars, menuVars, keyVars, args, mtu, exc, exit_code, sessionVars, key_queue, text_queue,
                   cur, nevents, st, calls, wireVars>>

\* while self.running and self.client and self.client.is_connected
LoopConditionIgnoresRunning == client # "none" /\ connected

LoopCondition == running /\ client # "none" /\ connected

\* the loop test and, when it holds, the get_nowait on the text queue
CapTop ==
    /\ pc = "cap_top"
    /\ IF LoopCondition
       THEN IF Poll(text_queue, key_queue) = "text"
            THEN LET g == QueueGet(text_queue)
                 IN /\ cur' = g.item
                    /\ text_queue' = g.rest
                    /\ SendTextCall(g.item.text, FALSE, "cap_top", g.item.id)
            ELSE /\ pc' = "cap_key_wait"
                 /\ UNCHANGED <<exc, st, calls, log, inflight, cur, text_queue>>
       ELSE /\ pc' = "cap_finally"
            /\ UNCHANGED <<exc, st, calls, log, inflight, cur, text_queue>>
    /\ UNCHANGED <<stop_requested, disconnects, saveVars, menuVars, keyVars, args, mtu, exit_code, sessionVars, running, key_queue,
                   modifiers, listener, nevents, received, failed>>

\* data = bytes([modifiers, keycode]) of the dequeued event
HidPayloadLiveModifiers(item) == <<modifiers, item.keycode>>

HidPayload(item) == <<item.mods, item.keycode>>

\* write_gatt_char(CHAR_HID_UUID, data): no response is asked for
HidWriteWithResponse(item) == WriteEvent("hid", HidPayload(item), TRUE, 0, item.id)

HidWrite(item) == WriteEvent("hid", HidPayload(item), FALSE, 0, item.id)

\* wait_for(key_queue.get(), 0.05) returned an event; send_hid_key runs up
\* to its write
CapKeyGet ==
    /\ pc = "cap_key_wait"
    /\ key_queue # <<>>
    /\ LET g == QueueGet(key_queue)
       IN /\ cur' = g.item
          /\ key_queue' = g.rest
          /\ IF client = "none" \/ ~connected
             THEN /\ pc' = "cap_top"
                  /\ UNCHANGED <<log, inflight>>
             ELSE /\ log' = Append(log, HidWrite(g.item))
                  /\ inflight' = inflight \cup {Len(log) + 1}
                  /\ pc' = "cap_hid_await"
    /\ UNCHANGED <<stop_requested, disconnects, saveVars, menuVars, keyVars, args, mtu, exc, exit_code, sessionVars, running, text_queue,
                   modifiers, listener, nevents, st, calls, received, failed>>

\* asyncio.TimeoutError: continue
CapKeyTimeout ==
    /\ pc = "cap_key_wait"
    /\ pc' = "cap_top"
    /\ UNCHANGED <<stop_requested, disconnects, saveVars, menuVars, keyVars, args, mtu, exc, exit_code, sessionVars, running, captureVars,
                   st, calls, wireVars>>

\* the raw-key write returned or raised; nothing in the loop catches the
\* transport's exception
CapAfterHid ==
    /\ pc = "cap_hid_await"
    /\ WriteReturned(Len(log))
    /\ IF Len(log) \in failed
       THEN /\ exc' = "BleakError"
            /\ pc' = "cap_finally"
       ELSE /\ pc' = "cap_top"
            /\ exc' = exc
    /\ UNCHANGED <<stop_requested, disconnects, saveVars, menuVars, keyVars, args, mtu, exit_code, sessionVars, running, captureVars,
                   st, calls, wireVars>>

\* finally: listener.stop()
CapFinally ==
    /\ pc = "cap_finally"
    /\ listener' = "stopped"
    /\ pc' = "main_finally"
    /\ UNCHANGED <<stop_requested, disconnects, saveVars, menuVars, keyVars, args, mtu, exc, exit_code, sessionVars, running, key_queue,
                   text_queue, modifiers, cur, nevents, st, calls, wireVars>>

(***************************************************************************)
(* The listener thread and the SIGINT handler.                             *)
(***************************************************************************)
\* get_clipboard(): None on failure, else the decoded clipboard; the last
\* one is a paste of more than one chunk, over the pacing threshold
Clipboards ==
    {[ok |-> FALSE, text |-> <<>>], [ok |-> TRUE, text |-> <<>>],
     [ok |-> TRUE, text |-> <<65>>], [ok |-> TRUE, text |-> <<66, 233>>],
     [ok |-> TRUE, text |-> AsciiPattern(MEDIUM_PASTE + 1)]}

\* the callback on_press(key) as the listener thread runs it: the modifier
\* byte and the two put_nowait calls
HandlePress(key, clip) ==
    LET r == OnPress(key, modifiers, clip)
    IN /\ modifiers' = r.mods
       /\ text_queue' = IF r.push = "text"
                        THEN Append(text_queue, TextItem(nevents + 1, r.text))
                        ELSE text_queue
       /\ key_queue' = IF r.push = "key"
                       THEN Append(key_queue, KeyItem(nevents + 1, r.kmods, r.keycode))
                       ELSE key_queue

ListenerPress(K) ==
    /\ listener = "started"
    /\ nevents < MaxEvents
    /\ \E key \in K, clip \in Clipboards : HandlePress(key, clip)
    /\ nevents' = nevents + 1
    /\ UNCHANGED <<stop_requested, disconnects, saveVars, menuVars, keyVars, args, mtu, pc, exc, exit_code, sessionVars, running,
                   listener, cur, st, calls, wireVars>>

\* a release of a key that is no modifier changes nothing
ListenerRelease(K) ==
    /\ listener = "started"
    /\ nevents < MaxEvents
    /\ \E key \in K :
          /\ ModifierBit(key) # 0
          /\ modifiers' = OnRelease(key, modifiers)
    /\ nevents' = nevents + 1
    /\ UNCHANGED <<stop_requested, disconnects, saveVars, menuVars, keyVars, args, mtu, pc, exc, exit_code, sessionVars, running,
                   key_queue, text_queue, listener, cur, st, calls, wireVars>>

\* main.signal_handler; a second signal changes nothing
Sigint ==
    /\ pc # "exited"
    /\ running
    /\ running' = FALSE
    /\ stop_requested' = TRUE
    /\ UNCHANGED <<disconnects, saveVars, menuVars, keyVars, args, mtu, pc, exc, exit_code, sessionVars, captureVars,
                   st, calls, wireVars>>

\* the handler is installed before scan_and_connect is called: a signal
\* that arrives before capture_mode has begun
SigintBeforeCapture ==
    /\ pc \in {"main_connect", "main_dispatch"}
    /\ ~stop_requested
    /\ running' = FALSE
    /\ stop_requested' = TRUE
    /\ UNCHANGED <<disconnects, saveVars, menuVars, keyVars, args, mtu, pc, exc, exit_code, sessionVars,
                   captureVars, st, calls, wireVars>>

CaptureKeys == {EnumKey("cmd_l"), CharKey("v"), CharKey("a"), EnumKey("enter")}
CaptureMTUs == {503}

InitCapture ==
    /\ InitClient
    /\ args = [mode |-> "capture", text |-> <<>>, slow |-> FALSE]
    /\ mtu \in CaptureMTUs

NextCapture ==
    \/ ScanAndConnect
    \/ MainCaptureMode
    \/ CapTop
    \/ CapKeyGet
    \/ CapKeyTimeout
    \/ CapAfterHid
    \/ CapFinally
    \/ AfterWrite
    \/ SleepDone
    \/ TransportAck
    \/ TransportFail
    \/ LinkLost
    \/ OnDisconnect
    \/ ListenerPress(CaptureKeys)
    \/ ListenerRelease(CaptureKeys)
    \/ Sigint
    \/ MainFinally

SpecCapture == InitCapture /\ [][NextCapture]_vars

\* a capture run in which the signal can also arrive before capture_mode
NextStop ==
    \/ NextCapture
    \/ SigintBeforeCapture

SpecStop == InitCapture /\ [][NextStop]_vars

\* The asyncio event loop resumes the main coroutine whenever it can run (a
\* ready step, an expired sleep or poll timeout), and the transport ends
\* every write call it was given, with a result or with an exception.
\* Nothing is assumed of the listener thread, the link or the signal.
CoroutineStep ==
    \/ ScanAndConnect
    \/ MainCaptureMode
    \/ CapTop
    \/ CapKeyGet
    \/ CapKeyTimeout
    \/ CapAfterHid
    \/ CapFinally
    \/ AfterWrite
    \/ SleepDone
    \/ MainFinally

TransportStep == TransportAck \/ TransportFail

SpecCaptureFair ==
    /\ InitCapture
    /\ [][NextCapture]_vars
    /\ WF_vars(CoroutineStep)
    /\ WF_vars(TransportStep)

(***************************************************************************)
(* main: the mode chosen from the command line.  An option is given or     *)
(* not, and a given option has a value, which may be the empty string;     *)
(* Python tests the options by truth value.  --saveon is not passed.       *)
(***************************************************************************)
NotGiven == [given |-> FALSE, value |-> <<>>]
Given(v) == [given |-> TRUE, value |-> v]

\* 'if args.text', 'not args.file': None and '' are false
Truthy(opt) == opt.given /\ opt.value # <<>>

\* capture_mode = args.capture or (not args.text and not args.file)
CaptureModeFlag(capture, text, file) == capture \/ (~Truthy(text) /\ ~Truthy(file))

\* if args.file: ... elif args.text: ... elif capture_mode: ...
Branch(capture, text, file) ==
    IF Truthy(file) THEN "file"
    ELSE IF Truthy(text) THEN "text"
    ELSE IF CaptureModeFlag(capture, text, file) THEN "capture"
    ELSE "none"

\* read_text_file(args.file): None, or the file's text
FileContents == {[ok |-> FALSE, text |-> <<>>], [ok |-> TRUE, text |-> <<>>],
                 [ok |-> TRUE, text |-> <<102>>]}

\* the command lines: --capture or not, --text absent, '' or 'hi', --file
\* absent, '' or 'f.t'
MainArgs ==
    {[mode |-> Branch(c, t, f), text |-> t.value, slow |-> FALSE,
      capture |-> c, text_opt |-> t, file_opt |-> f, content |-> fc] :
        c \in BOOLEAN,
        t \in {NotGiven, Given(<<>>), Given(<<104, 105>>)},
        f \in {NotGiven, Given(<<>>), Given(<<102, 46, 116>>)},
        fc \in FileContents}

\* file mode without --saveon: the file is read and typed, or the read
\* fails and main calls sys.exit(1)
MainFileMode ==
    /\ pc = "main_dispatch"
    /\ args.mode = "file"
    /\ IF args.content.ok
       THEN SendTextCall(args.content.text, args.slow, "main_finally", 0)
       ELSE /\ exc' = "SystemExit"
            /\ pc' = "main_finally"
            /\ UNCHANGED <<st, calls, log, inflight>>
    /\ UNCHANGED <<stop_requested, disconnects, saveVars, menuVars, keyVars, args, mtu, exit_code, sessionVars, running, captureVars,
                   received, failed>>

InitMain ==
    /\ InitClient
    /\ args \in {a \in MainArgs : ~Truthy(a.file_opt) => ~a.content.ok}
    /\ mtu \in CaptureMTUs

NextMain ==
    \/ ScanAndConnect
    \/ MainFileMode
    \/ MainTextMode
    \/ MainCaptureMode
    \/ CapTop
    \/ CapKeyGet
    \/ CapKeyTimeout
    \/ CapAfterHid
    \/ CapFinally
    \/ AfterWrite
    \/ TransportAck
    \/ TransportFail
    \/ LinkLost
    \/ OnDisconnect
    \/ ListenerPress({CharKey("a")})
    \/ Sigint
    \/ MainFinally

SpecMain == InitMain /\ [][NextMain]_vars

(***************************************************************************)
(* The menu bar app (menubar_app.py): sendClipboard_ runs on the main      *)
(* thread, the flows run as coroutines on the event loop of the BLE        *)
(* thread.  A flow is [pc, client, connected, disconnected]; its pc is the  *)
(* await it is suspended in, "returning" between the return of the         *)
(* not-found branch and the finally block, and "done" when the coroutine   *)
(* has ended; disconnected records that it called client.disconnect().     *)
(***************************************************************************)
MaxFlows == 3

MenuFrame == <<args, mtu, pc, exc, exit_code, sessionVars, running, captureVars, st, calls,
               wireVars, keyVars, saveVars, disconnects, stop_requested>>

NewFlow == [pc |-> "scheduled", client |-> "none", connected |-> FALSE,
            disconnected |-> FALSE]

\* run_loop in the BLE thread: self.loop = asyncio.new_event_loop()
RunLoop ==
    /\ loop = "none"
    /\ loop' = "running"
    /\ UNCHANGED <<sending, flows, MenuFrame>>

\* sendClipboard_ when it gets past its two early returns
SendClipboard ==
    /\ \E clipboard \in {<<>>, <<65>>} :
          /\ ~sending
          /\ clipboard # <<>>
    /\ Len(flows) < MaxFlows
    /\ sending' = TRUE
    /\ flows' = IF loop # "none" THEN Append(flows, NewFlow) ELSE flows
    /\ UNCHANGED <<loop, MenuFrame>>

\* find_device_by_name returned None or a device, or raised
FlowFind(i) ==
    /\ i \in 1..Len(flows)
    /\ loop = "running"
    /\ flows[i].pc = "scheduled"
    /\ \E res \in {"none", "device", "raised"} :
          /\ flows' = [flows EXCEPT ![i].pc = CASE res = "none" -> "returning"
                                                [] res = "device" -> "connect"
                                                [] OTHER -> "finally",
                                    ![i].client = IF res = "device" THEN "obj" ELSE "none"]
          /\ sending' = IF res = "none" THEN FALSE ELSE sending
    /\ UNCHANGED <<loop, MenuFrame>>

\* client.connect() returned or raised
FlowConnect(i) ==
    /\ i \in 1..Len(flows)
    /\ flows[i].pc = "connect"
    /\ \E ok \in BOOLEAN :
          flows' = [flows EXCEPT ![i].pc = IF ok THEN "write" ELSE "finally",
                                 ![i].connected = ok]
    /\ UNCHANGED <<sending, loop, MenuFrame>>

\* the chunk loop ended: all writes returned, or one raised with the link
\* still up or lost
FlowWrite(i) ==
    /\ i \in 1..Len(flows)
    /\ flows[i].pc = "write"
    /\ \E res \in {"sent", "raised", "lost"} :
          flows' = [flows EXCEPT ![i].pc = "finally",
                                 ![i].connected = (res # "lost")]
    /\ UNCHANGED <<sending, loop, MenuFrame>>

\* finally: if client and client.is_connected: await client.disconnect();
\* self._reset_ui()
FlowFinally(i) ==
    /\ i \in 1..Len(flows)
    /\ flows[i].pc \in {"returning", "finally"}
    /\ IF flows[i].client # "none" /\ flows[i].connected
       THEN /\ flows' = [flows EXCEPT ![i].pc = "disconnect"]
            /\ sending' = sending
       ELSE /\ flows' = [flows EXCEPT ![i].pc = "done"]
            /\ sending' = FALSE
    /\ UNCHANGED <<loop, MenuFrame>>

\* disconnect() returned; _reset_ui
FlowDisconnected(i) ==
    /\ i \in 1..Len(flows)
    /\ flows[i].pc = "disconnect"
    /\ flows' = [flows EXCEPT ![i].pc = "done", ![i].connected = FALSE,
                              ![i].disconnected = TRUE]
    /\ sending' = FALSE
    /\ UNCHANGED <<loop, MenuFrame>>

\* the BLE thread: it starts its loop, and the loop resumes every coroutine
\* whose await has ended
BleStep ==
    \/ RunLoop
    \/ \E i \in 1..MaxFlows :
          FlowFind(i) \/ FlowConnect(i) \/ FlowWrite(i) \/ FlowFinally(i) \/ FlowDisconnected(i)

NextMenu ==
    \/ RunLoop
    \/ SendClipboard
    \/ \E i \in 1..MaxFlows : FlowFind(i)
    \/ \E i \in 1..MaxFlows : FlowConnect(i)
    \/ \E i \in 1..MaxFlows : FlowWrite(i)
    \/ \E i \in 1..MaxFlows : FlowFinally(i)
    \/ \E i \in 1..MaxFlows : FlowDisconnected(i)

\* the delegate after init and _start_ble_thread: the thread is started,
\* self.loop is still None
InitMenu ==
    /\ InitClient
    /\ args = [mode |-> "menu", text |-> <<>>, slow |-> FALSE]
    /\ mtu \in CaptureMTUs

\* Nothing is assumed of the user; the BLE thread runs whenever it can.
SpecMenu ==
    /\ InitMenu
    /\ [][NextMenu]_vars
    /\ WF_vars(BleStep)

(***************************************************************************)
(* The consumer loop under input that never ends.  The listener may press  *)
(* keys and paste for ever, so nothing is counted and no history is kept:  *)
(* a send is one step that returns or raises, the queues hold at most      *)
(* QueueCap entries, and one entry at a time carries the mark 1 so that    *)
(* its way through the loop can be followed (all other entries carry 0).   *)
(***************************************************************************)
QueueCap == 2

Marked(q) == \E i \in 1..Len(q) : q[i].id = 1

\* what the loop does not depend on is kept small: one clipboard content,
\* and the keys of a paste and of one plain character
LoopClipboards == {[ok |-> TRUE, text |-> <<65>>]}
LoopKeys == {EnumKey("cmd_l"), CharKey("v"), CharKey("a")}

\* on_press from the listener thread, the entry it queues marked or not
LoopPress ==
    /\ listener = "started"
    /\ \E key \in LoopKeys, clip \in LoopClipboards, mark \in {0, 1} :
          LET r == OnPress(key, modifiers, clip)
          IN /\ mark = 1 => /\ r.push # "none"
                            /\ ~Marked(text_queue) /\ ~Marked(key_queue)
                            /\ cur.id # 1
             /\ r.push = "text" => Len(text_queue) < QueueCap
             /\ r.push = "key" => Len(key_queue) < QueueCap
             /\ modifiers' = r.mods
             /\ text_queue' = IF r.push = "text"
                              THEN Append(text_queue, TextItem(mark, r.text))
                              ELSE text_queue
             /\ key_queue' = IF r.push = "key"
                             THEN Append(key_queue, KeyItem(mark, r.kmods, r.keycode))
                             ELSE key_queue
    /\ UNCHANGED <<stop_requested, disconnects, saveVars, menuVars, keyVars, args, mtu, pc, exc, exit_code, sessionVars, running,
                   listener, cur, nevents, st, calls, wireVars>>

\* on_release of a modifier key
LoopRelease ==
    /\ listener = "started"
    /\ \E key \in LoopKeys :
          /\ ModifierBit(key) # 0
          /\ modifiers' = OnRelease(key, modifiers)
    /\ UNCHANGED <<stop_requested, disconnects, saveVars, menuVars, keyVars, args, mtu, pc, exc, exit_code, sessionVars, running,
                   key_queue, text_queue, listener, cur, nevents, st, calls, wireVars>>

\* the loop test, the get_nowait on the text queue and the call of send_text
LoopTop ==
    /\ pc = "cap_top"
    /\ IF LoopCondition
       THEN IF Poll(text_queue, key_queue) = "text"
            THEN LET g == QueueGet(text_queue)
                 IN /\ cur' = g.item
                    /\ text_queue' = g.rest
                    /\ pc' = IF NotConnected THEN "cap_top" ELSE "loop_send"
            ELSE /\ pc' = "cap_key_wait"
                 /\ UNCHANGED <<cur, text_queue>>
       ELSE /\ pc' = "cap_finally"
            /\ UNCHANGED <<cur, text_queue>>
    /\ UNCHANGED <<stop_requested, disconnects, saveVars, menuVars, keyVars, args, mtu, exc, exit_code, sessionVars, running, key_queue,
                   modifiers, listener, nevents, st, calls, wireVars>>

\* wait_for(key_queue.get(), 0.05) on a queue that holds an entry returns it
LoopKeyGet ==
    /\ pc = "cap_key_wait"
    /\ key_queue # <<>>
    /\ LET g == QueueGet(key_queue)
       IN /\ cur' = g.item
          /\ key_queue' = g.rest
          /\ pc' = IF client = "none" \/ ~connected THEN "cap_top" ELSE "loop_send"
    /\ UNCHANGED <<stop_requested, disconnects, saveVars, menuVars, keyVars, args, mtu, exc, exit_code, sessionVars, running, text_queue,
                   modifiers, listener, nevents, st, calls, wireVars>>

\* the 0.05 s expire on a key queue that stayed empty: continue
LoopKeyTimeout ==
    /\ key_queue = <<>>
    /\ CapKeyTimeout

\* send_text or send_hid_key ends: every write returned, or one raised (as
\* every write does once the link is lost)
LoopSendDone ==
    /\ pc = "loop_send"
    /\ \E ok \in (IF connected THEN BOOLEAN ELSE {FALSE}) :
          IF ok
          THEN /\ pc' = "cap_top"
               /\ exc' = exc
          ELSE /\ exc' = "BleakError"
               /\ pc' = "cap_finally"
    /\ UNCHANGED <<stop_requested, disconnects, saveVars, menuVars, keyVars, args, mtu, exit_code, sessionVars, running, captureVars,
                   st, calls, wireVars>>

\* the steps of the main coroutine; the event loop resumes it whenever one
\* of them can be taken
LoopStep ==
    \/ ScanAndConnect
    \/ MainCaptureMode
    \/ LoopTop
    \/ LoopKeyGet
    \/ LoopKeyTimeout
    \/ LoopSendDone
    \/ CapFinally
    \/ MainFinally

NextLoop ==
    \/ ScanAndConnect
    \/ MainCaptureMode
    \/ LoopTop
    \/ LoopKeyGet
    \/ LoopKeyTimeout
    \/ LoopSendDone
    \/ CapFinally
    \/ MainFinally
    \/ LoopPress
    \/ LoopRelease
    \/ LinkLost
    \/ OnDisconnect
    \/ Sigint

\* Nothing is assumed of the listener thread, the link or the signal.
SpecLoop ==
    /\ InitCapture
    /\ [][NextLoop]_vars
    /\ WF_vars(LoopStep)

(***************************************************************************)
(* The listener callbacks on their own: one key event is handed to         *)
(* on_press / on_release while the consumer is blocked in its key poll,    *)
(* for every key the callbacks distinguish and every set of modifier keys  *)
(* that are down at that moment.                                           *)
(***************************************************************************)
\* the members of keyboard.Key that the modifier chain names; the generic
\* members share the branch, and the bit, of the left key
ModifierKeyNames ==
    {"ctrl_l", "ctrl_r", "shift", "shift_l", "shift_r", "alt", "alt_l", "alt_r",
     "cmd", "cmd_l", "cmd_r"}

PhysicalKey(name) ==
    CASE name = "shift" -> "shift_l"
      [] name = "alt" -> "alt_l"
      [] name = "cmd" -> "cmd_l"
      [] OTHER -> name

PhysicalModifiers == {PhysicalKey(n) : n \in ModifierKeyNames}

\* the members the special-key chain names, and some it does not
SpecialKeyNames ==
    {"space", "enter", "backspace", "tab", "esc", "delete", "up", "down", "left",
     "right", "home", "end", "page_up", "page_down"}
OtherKeyNames == {"f1", "f12", "insert", "caps_lock"}

\* characters a KeyCode can carry: every base character, every character
\* of the shift table, the space, the newline, a letter outside both
\* tables ("e-acute" stands for it) and None ("")
BaseChars == {SHIFT_CHARS[c] : c \in DOMAIN SHIFT_CHARS}
KeyChars == BaseChars \cup DOMAIN SHIFT_CHARS \cup {" ", "\n", "e-acute", ""}

AllKeys ==
    {EnumKey(n) : n \in ModifierKeyNames \cup SpecialKeyNames \cup OtherKeyNames}
    \cup {CharKey(c) : c \in KeyChars}

\* the modifier byte after the keys of H went down, one on_press each
BitIf(b, bits) == IF b \in bits THEN b ELSE 0
HeldMask(H) ==
    LET bits == {ModifierBit(EnumKey(k)) : k \in H}
    IN BitIf(MOD_LCTRL, bits) + BitIf(MOD_LSHIFT, bits) + BitIf(MOD_LALT, bits)
       + BitIf(MOD_LGUI, bits) + BitIf(MOD_RCTRL, bits) + BitIf(MOD_RSHIFT, bits)
       + BitIf(MOD_RALT, bits) + BitIf(MOD_RGUI, bits)

PressOf(key, clip) == [kind |-> "press", key |-> key, clip |-> clip]
ReleaseOf(key) == [kind |-> "release", key |-> key, clip |-> NoClip]

\* the clipboard is read only by a press of 'v'
KeyEvents ==
    {PressOf(k, NoClip) : k \in AllKeys \ {CharKey("v")}}
    \cup {PressOf(CharKey("v"), c) : c \in Clipboards}
    \cup {ReleaseOf(k) : k \in AllKeys}

\* only a key that is down is released
Releasable(e, H) ==
    (e.kind = "release" /\ ModifierBit(e.key) # 0) => PhysicalKey(e.key.v) \in H

InitKeys ==
    /\ args = [mode |-> "capture", text |-> <<>>, slow |-> FALSE]
    /\ mtu \in CaptureMTUs
    /\ pc = "cap_key_wait"
    /\ exc = "none"
    /\ exit_code = -1
    /\ client = "obj"
    /\ connected = TRUE
    /\ cb_pending = FALSE
    /\ chunk_size = ChunkSizeFor(mtu)
    /\ running = TRUE
    /\ key_queue = <<>>
    /\ text_queue = <<>>
    /\ listener = "started"
    /\ st = NoFrame
    /\ cur = NoItem
    /\ calls = <<>>
    /\ log = <<>>
    /\ inflight = {}
    /\ received = <<>>
    /\ failed = {}
    /\ nevents = 0
    /\ disconnects = 0
    /\ stop_requested = FALSE
    /\ held \in SUBSET PhysicalModifiers
    /\ modifiers = HeldMask(held)
    /\ event \in {e \in KeyEvents : Releasable(e, held)}
    /\ job = NoJob
    /\ now = ClockStart
    /\ safe_filename = <<>>
    /\ delimiter = <<>>
    /\ delimiters = <<>>
    /\ script = <<>>
    /\ sending = FALSE
    /\ loop = "none"
    /\ flows = <<>>

KeyPress ==
    /\ listener = "started"
    /\ nevents = 0
    /\ event.kind = "press"
    /\ HandlePress(event.key, event.clip)
    /\ held' = IF ModifierBit(event.key) # 0
               THEN held \cup {PhysicalKey(event.key.v)}
               ELSE held
    /\ nevents' = nevents + 1
    /\ UNCHANGED <<stop_requested, disconnects, saveVars, menuVars, event, args, mtu, pc, exc, exit_code, sessionVars, running,
                   listener, cur, st, calls, wireVars>>

KeyRelease ==
    /\ listener = "started"
    /\ nevents = 0
    /\ event.kind = "release"
    /\ modifiers' = OnRelease(event.key, modifiers)
    /\ held' = held \ {PhysicalKey(event.key.v)}
    /\ nevents' = nevents + 1
    /\ UNCHANGED <<stop_requested, disconnects, saveVars, menuVars, event, args, mtu, pc, exc, exit_code, sessionVars, running,
                   key_queue, text_queue, listener, cur, st, calls, wireVars>>

NextKeys ==
    \/ KeyPress
    \/ KeyRelease

SpecKeys == InitKeys /\ [][NextKeys]_vars

(***************************************************************************)
(* send_keys: what is sent for one character of the text, if anything.     *)
(***************************************************************************)
NoKey == [send |-> FALSE, mods |-> 0, keycode |-> 0]
SendKey(m, kc) == [send |-> TRUE, mods |-> m, keycode |-> kc]

SendKeysChar(c) ==
    LET shifted == c \in DOMAIN SHIFT_CHARS
        mods == IF shifted THEN MOD_LSHIFT ELSE 0
        char == IF shifted THEN SHIFT_CHARS[c] ELSE c
        keycode == Lookup(MAC_KEY_TO_HID, Lookup(LowerTable, char, char), 0)
    IN IF keycode # 0 THEN SendKey(mods, keycode)
       ELSE IF char = "\n" THEN SendKey(0, 40)
       ELSE NoKey

(***************************************************************************)
(* The save operations: save_file_windows, save_binary_windows,            *)
(* save_file_linux, save_binary_linux.  A file name and a line of payload  *)
(* are sequences of one-character strings.                                 *)
(***************************************************************************)
AsciiLetters == DOMAIN LowerTable \cup {LowerTable[c] : c \in DOMAIN LowerTable}
AsciiDigits == {"0", "1", "2", "3", "4", "5", "6", "7", "8", "9"}
\* letters and digits outside ASCII that a file name of the model can hold
OtherAlnum == {"e-acute"}

\* str.isalnum() of one character: true for every letter or decimal digit
\* of Unicode
IsAlnum(c) == c \in AsciiLetters \cup AsciiDigits \cup OtherAlnum

\* the characters kept beside the alphanumerics: '.-_' and '.-_/'
WindowsKept == {".", "-", "_"}
LinuxKept == {".", "-", "_", "/"}

\* "".join(c for c in filename if c.isalnum() or c in kept)
Filter(filename, kept) == SelectSeq(filename, LAMBDA c : IsAlnum(c) \/ c \in kept)

UntitledTxt == <<"u", "n", "t", "i", "t", "l", "e", "d", ".", "t", "x", "t">>
FileBin == <<"f", "i", "l", "e", ".", "b", "i", "n">>
DefaultName(binary) == IF binary THEN FileBin ELSE UntitledTxt

\* safe_filename.startswith('/')
StartsWithSlashNever(name) == FALSE

StartsWithSlash(name) == name # <<>> /\ name[1] = "/"

\* safe_filename of the two Windows operations
SanitizeWindowsKeepsSlash(filename, binary) ==
    LET f == Filter(filename, LinuxKept)
    IN IF f = <<>> THEN DefaultName(binary) ELSE f

SanitizeWindows(filename, binary) ==
    LET f == Filter(filename, WindowsKept)
    IN IF f = <<>> THEN DefaultName(binary) ELSE f

\* safe_filename of the two Linux operations
SanitizeLinux(filename, binary) ==
    LET f == Filter(filename, LinuxKept)
    IN IF f = <<>> \/ StartsWithSlash(f) THEN DefaultName(binary) ELSE f

\* str(n) of a natural number
RECURSIVE Decimal(_)
Decimal(n) ==
    LET digit == <<"0", "1", "2", "3", "4", "5", "6", "7", "8", "9">>
    IN IF n < 10 THEN <<digit[n + 1]>>
       ELSE Decimal(n \div 10) \o <<digit[(n % 10) + 1]>>

\* f"EOF_{int(time.time() * 1000)}"
Delimiter(ms) == <<"E", "O", "F", "_">> \o Decimal(ms)

\* the characters file names are enumerated over
NameAlphabet == {"a", "Z", "7", ".", "-", "_", "/", "\\", " ", "e-acute", ";"}

RECURSIVE NamesOfLen(_)
NamesOfLen(n) ==
    IF n = 0 THEN {<<>>}
    ELSE {Append(w, c) : w \in NamesOfLen(n - 1), c \in NameAlphabet}

EvilName == <<".", ".", "/", ".", ".", "/", "e", "v", "i", "l", " ", ".", "s", "h">>
Filenames ==
    UNION {NamesOfLen(n) : n \in 0..MaxNameLen}
    \cup {EvilName,
          <<"/", "e", "t", "c", "/", "x">>,
          <<"d", "i", "r", "/", "f", ".", "t", "x", "t">>}

\* the lines of a text payload; one of them reads like a delimiter
TextPayloads ==
    {<<>>,
     <<<<"h", "i">>>>,
     <<<<"a">>, Delimiter(ClockStart + 1), <<"r", "m">>>>}
\* a binary payload is typed as one line of base64
Base64Payloads == {<<<<"Q", "Q", "=", "=">>>>}

SaveJobs ==
    {[os |-> o, binary |-> b, filename |-> f, lines |-> l] :
        o \in {"windows", "linux"}, b \in BOOLEAN, f \in Filenames,
        l \in TextPayloads \cup Base64Payloads}

\* the awaited steps of a save operation: a raw-key report followed by its
\* sleep, a sleep, or a send_text call
KeyStep(m, kc, ms) == [kind |-> "key", mods |-> m, keycode |-> kc, ms |-> ms, text |-> <<>>]
SleepStep(ms) == [kind |-> "sleep", mods |-> 0, keycode |-> 0, ms |-> ms, text |-> <<>>]
TextStep(t) == [kind |-> "text", mods |-> 0, keycode |-> 0, ms |-> 0, text |-> t]

\* send_keys(text): one report per character that has a keycode (or is a
\* newline), the other characters are passed over
SendKeys(text) ==
    LET r == [i \in 1..Len(text) |-> SendKeysChar(text[i])]
        kept == SelectSeq(r, LAMBDA x : x.send)
    IN [i \in 1..Len(kept) |-> KeyStep(kept[i].mods, kept[i].keycode, KEY_DELAY_MS)]

\* send_key_combo(0x28)
SendEnter == <<KeyStep(0, ENTER, COMBO_DELAY_MS)>>

\* ord() of the characters the payloads of the model are written in
Ord ==
    "\n" :> 10 @@ "0" :> 48 @@ "1" :> 49 @@ "2" :> 50 @@ "3" :> 51 @@ "4" :> 52 @@
    "5" :> 53 @@ "6" :> 54 @@ "7" :> 55 @@ "8" :> 56 @@ "9" :> 57 @@ "=" :> 61 @@
    "E" :> 69 @@ "F" :> 70 @@ "O" :> 79 @@ "Q" :> 81 @@ "_" :> 95 @@ "a" :> 97 @@
    "h" :> 104 @@ "i" :> 105 @@ "m" :> 109 @@ "r" :> 114

\* the payload as the string handed to send_text: its lines joined by
\* newlines, as code points
RECURSIVE Content(_)
Content(lines) ==
    IF lines = <<>> THEN <<>>
    ELSE LET first == [i \in 1..Len(lines[1]) |-> Ord[lines[1][i]]]
         IN IF Len(lines) = 1 THEN first
            ELSE first \o <<Ord["\n"]>> \o Content(Tail(lines))

\* f"cat > {safe_filename} << '{delimiter}'" and
\* f"cat << '{delimiter}' | base64 -d > {safe_filename}"
HereDocCommand(binary, name, delim) ==
    IF binary
    THEN <<"c", "a", "t", " ", "<", "<", " ", "'">> \o delim
         \o <<"'", " ", "|", " ", "b", "a", "s", "e", "6", "4", " ", "-", "d", " ", ">", " ">>
         \o name
    ELSE <<"c", "a", "t", " ", ">", " ">> \o name \o <<" ", "<", "<", " ", "'">>
         \o delim \o <<"'">>

\* save_file_linux / save_binary_linux from the first await on
LinuxScriptDelimiterFirst(binary, name, delim, lines) ==
    SendKeys(HereDocCommand(binary, name, delim)) \o SendEnter
    \o <<SleepStep(HEREDOC_DELAY_MS)>>
    \o SendEnter \o SendKeys(delim) \o <<TextStep(Content(lines))>> \o SendEnter
    \o (IF binary THEN <<SleepStep(BINARY_END_DELAY_MS)>> ELSE <<>>)

LinuxScript(binary, name, delim, lines) ==
    SendKeys(HereDocCommand(binary, name, delim)) \o SendEnter
    \o <<SleepStep(HEREDOC_DELAY_MS)>>
    \o <<TextStep(Content(lines))>>
    \o SendEnter \o SendKeys(delim) \o SendEnter
    \o (IF binary THEN <<SleepStep(BINARY_END_DELAY_MS)>> ELSE <<>>)

\* a connected session on which main calls one of the save operations
InitSave ==
    /\ args = [mode |-> "save", text |-> <<>>, slow |-> FALSE]
    /\ mtu \in CaptureMTUs
    /\ pc = "save_call"
    /\ exc = "none"
    /\ exit_code = -1
    /\ client = "obj"
    /\ connected = TRUE
    /\ cb_pending = FALSE
    /\ chunk_size = ChunkSizeFor(mtu)
    /\ running = FALSE
    /\ key_queue = <<>>
    /\ text_queue = <<>>
    /\ modifiers = 0
    /\ listener = "none"
    /\ st = NoFrame
    /\ cur = NoItem
    /\ calls = <<>>
    /\ log = <<>>
    /\ inflight = {}
    /\ received = <<>>
    /\ failed = {}
    /\ nevents = 0
    /\ disconnects = 0
    /\ stop_requested = FALSE
    /\ held = {}
    /\ event = NoEvent
    /\ job \in {j \in SaveJobs : j.lines \in (IF j.binary THEN Base64Payloads
                                                         ELSE TextPayloads)}
    /\ now = ClockStart
    /\ safe_filename = <<>>
    /\ delimiter = <<>>
    /\ delimiters = <<>>
    /\ script = <<>>
    /\ sending = FALSE
    /\ loop = "none"
    /\ flows = <<>>

\* a save operation from its call to its first await: the sanitized name
\* and, in the Linux operations, the delimiter
SaveBegin ==
    /\ pc = "save_call"
    /\ safe_filename' = IF job.os = "windows"
                        THEN SanitizeWindows(job.filename, job.binary)
                        ELSE SanitizeLinux(job.filename, job.binary)
    /\ delimiter' = IF job.os = "linux" THEN Delimiter(now) ELSE <<>>
    /\ delimiters' = IF job.os = "linux" THEN Append(delimiters, Delimiter(now))
                     ELSE delimiters
    /\ script' = IF job.os = "linux"
                  THEN LinuxScript(job.binary,
                                   SanitizeLinux(job.filename, job.binary),
                                   Delimiter(now), job.lines)
                  ELSE <<>>
    /\ pc' = "save_typing"
    /\ UNCHANGED <<stop_requested, disconnects, job, now, menuVars, keyVars, args, mtu, exc, exit_code, sessionVars, running,
                   captureVars, st, calls, wireVars>>

\* the same file is saved once more, by a later run or a concurrent one
SaveAgain ==
    /\ pc = "save_typing"
    /\ Len(delimiters) < MaxInvocations
    /\ pc' = "save_call"
    /\ safe_filename' = <<>>
    /\ delimiter' = <<>>
    /\ script' = <<>>
    /\ UNCHANGED <<stop_requested, disconnects, job, now, delimiters, menuVars, keyVars, args, mtu, exc, exit_code, sessionVars,
                   running, captureVars, st, calls, wireVars>>

\* a millisecond passes
Tick ==
    /\ now < MaxClock
    /\ now' = now + 1
    /\ UNCHANGED <<stop_requested, disconnects, job, safe_filename, delimiter, delimiters, script, menuVars, keyVars, args, mtu, pc,
                   exc, exit_code, sessionVars, running, captureVars, st, calls,
                   wireVars>>

\* time.time() is the wall clock: it is set back when the clock is adjusted
ClockSetBack ==
    /\ \E t \in ClockStart..(now - 1) : now' = t
    /\ UNCHANGED <<stop_requested, disconnects, job, safe_filename, delimiter, delimiters, script, menuVars, keyVars, args, mtu, pc,
                   exc, exit_code, sessionVars, running, captureVars, st, calls,
                   wireVars>>

NextSave ==
    \/ SaveBegin
    \/ SaveAgain
    \/ Tick
    \/ ClockSetBack

SpecSave == InitSave /\ [][NextSave]_vars

(***************************************************************************)
(* The Linux save operations from their first await to their return.       *)
(***************************************************************************)
SaveFrame == <<stop_requested, disconnects, job, now, safe_filename, delimiter, delimiters, menuVars, keyVars, args,
               mtu, exit_code, sessionVars, running, captureVars, received, failed>>

\* the next awaited step of the operation; when none is left the operation
\* returns into main's finally block
SaveStep ==
    /\ pc = "save_typing"
    /\ IF script = <<>>
       THEN /\ pc' = "main_finally"
            /\ UNCHANGED <<script, exc, st, calls, log, inflight>>
       ELSE LET h == Head(script)
            IN IF h.kind = "text"
               THEN /\ script' = Tail(script)
                    /\ SendTextCall(h.text, FALSE, "save_typing", 0)
               ELSE IF h.kind = "key" /\ client # "none" /\ connected
               THEN /\ log' = Append(log, HidWrite([mods |-> h.mods, keycode |-> h.keycode,
                                                     id |-> 0]))
                    /\ inflight' = inflight \cup {Len(log) + 1}
                    /\ pc' = "save_key_await"
                    /\ UNCHANGED <<script, exc, st, calls>>
               ELSE \* send_hid_key returned without a write, or a plain sleep
                    /\ log' = Append(log, SleepEvent(h.ms, 0))
                    /\ pc' = "save_sleep"
                    /\ UNCHANGED <<script, exc, st, calls, inflight>>
    /\ UNCHANGED SaveFrame

\* the raw-key write returned or raised; then the sleep of send_keys or
\* send_key_combo
SaveAfterKey ==
    /\ pc = "save_key_await"
    /\ WriteReturned(Len(log))
    /\ IF Len(log) \in failed
       THEN /\ exc' = "BleakError"
            /\ pc' = "main_finally"
            /\ UNCHANGED log
       ELSE /\ log' = Append(log, SleepEvent(Head(script).ms, 0))
            /\ pc' = "save_sleep"
            /\ UNCHANGED exc
    /\ UNCHANGED <<script, st, calls, inflight>>
    /\ UNCHANGED SaveFrame

\* asyncio.sleep returned
SaveSleepDone ==
    /\ pc = "save_sleep"
    /\ script' = Tail(script)
    /\ pc' = "save_typing"
    /\ UNCHANGED <<exc, st, calls, log, inflight>>
    /\ UNCHANGED SaveFrame

\* the MTU gives a chunk size of 2 or of 500; the payloads of the model
\* are below the size at which send_text paces its chunks
SaveMTUs == {5, 503}

LinuxJobs ==
    {j \in SaveJobs :
        /\ j.os = "linux"
        /\ j.filename \in {<<"Z">>, <<"/", "e", "t", "c", "/", "x">>,
                           <<"d", "i", "r", "/", "f", ".", "t", "x", "t">>}
        /\ j.lines \in (IF j.binary THEN Base64Payloads ELSE TextPayloads \ {<<>>})}

InitSaveLinux ==
    /\ args = [mode |-> "save", text |-> <<>>, slow |-> FALSE]
    /\ mtu \in SaveMTUs
    /\ pc = "save_call"
    /\ exc = "none"
    /\ exit_code = -1
    /\ client = "obj"
    /\ connected = TRUE
    /\ cb_pending = FALSE
    /\ chunk_size = ChunkSizeFor(mtu)
    /\ running = FALSE
    /\ key_queue = <<>>
    /\ text_queue = <<>>
    /\ modifiers = 0
    /\ listener = "none"
    /\ st = NoFrame
    /\ cur = NoItem
    /\ calls = <<>>
    /\ log = <<>>
    /\ inflight = {}
    /\ received = <<>>
    /\ failed = {}
    /\ nevents = 0
    /\ disconnects = 0
    /\ stop_requested = FALSE
    /\ held = {}
    /\ event = NoEvent
    /\ job \in LinuxJobs
    /\ now = ClockStart
    /\ safe_filename = <<>>
    /\ delimiter = <<>>
    /\ delimiters = <<>>
    /\ script = <<>>
    /\ sending = FALSE
    /\ loop = "none"
    /\ flows = <<>>

NextSaveLinux ==
    \/ SaveBegin
    \/ SaveStep
    \/ SaveAfterKey
    \/ SaveSleepDone
    \/ AfterWrite
    \/ TransportAck
    \/ TransportFail
    \/ LinkLost
    \/ OnDisconnect
    \/ MainFinally

SpecSaveLinux == InitSaveLinux /\ [][NextSaveLinux]_vars

(***************************************************************************)
(* Views of the history used by the properties.                            *)
(***************************************************************************)
IsTextWrite(j, c) == log[j].op = "write" /\ log[j].ch = "text" /\ log[j].call = c
IsHidWrite(j) == log[j].op = "write" /\ log[j].ch = "hid"
IsSleep(j, c) == log[j].op = "sleep" /\ log[j].call = c

TextWrites(c) == {j \in 1..Len(log) : IsTextWrite(j, c)}
Sleeps(c) == {j \in 1..Len(log) : IsSleep(j, c)}
HidWrites == {j \in 1..Len(log) : IsHidWrite(j)}

\* the chunks written by call c, concatenated in write order
RECURSIVE ConcatChunks(_, _, _)
ConcatChunks(c, lo, hi) ==
    IF lo > hi THEN <<>>
    ELSE IF lo = hi THEN (IF IsTextWrite(lo, c) THEN log[lo].data ELSE <<>>)
    ELSE LET mid == (lo + hi) \div 2
         IN ConcatChunks(c, lo, mid) \o ConcatChunks(c, mid + 1, hi)

Written(c) == ConcatChunks(c, 1, Len(log))

HasNonAscii(t) == \E k \in 1..Len(t) : t[k] > 127

\* C1: the chunks a send_text call writes, concatenated in write order, are
\* at every moment a prefix of the UTF-8 encoding of its text, and the whole
\* encoding once the call has returned: no byte (of a non-ASCII character
\* or any other) is lost, duplicated, reordered or stripped.
C1_ChunksReassemble ==
    \A c \in 1..Len(calls) :
        calls[c].result # "not_connected" =>
            LET got == Written(c)
                enc == Utf8Encode(calls[c].text)
            IN /\ Len(got) <= Len(enc)
               /\ got = SubSeq(enc, 1, Len(got))
               /\ calls[c].result = "returned" => got = enc

C1_Witness ==
    \E c \in 1..Len(calls) :
        /\ calls[c].result = "returned"
        /\ ~calls[c].slow
        /\ HasNonAscii(calls[c].text)
        /\ Cardinality(TextWrites(c)) >= 3
        /\ mtu = 4

\* C2: at most one transport write is in flight; a write that is in flight
\* is the last one issued (nothing is issued behind an unconfirmed write);
\* and the device gets the writes of both channels in the order they were
\* issued.
C2_SequentialWrites ==
    /\ Cardinality(inflight) <= 1
    /\ \A k \in inflight : \A j \in (k + 1)..Len(log) : log[j].op # "write"
    /\ \A a, b \in 1..Len(received) : a < b => received[a] < received[b]

C2_Witness ==
    /\ \E a, b \in 1..Len(received) :
          /\ a < b
          /\ log[received[a]].ch = "text"
          /\ log[received[b]].ch = "hid"
    /\ \E a, b \in 1..Len(received) :
          /\ a < b
          /\ log[received[a]].ch = "text"
          /\ log[received[b]].ch = "text"

\* C3: when a chunk write of a send_text call fails, that call writes
\* nothing after it (no remaining chunk, no retry of the failed one), it
\* never returns normally, and once the coroutine has resumed the failure
\* is an exception propagating to the caller.
C3_FailureAborts ==
    \A k \in failed :
        log[k].ch = "text" =>
            LET c == log[k].call
            IN /\ \A j \in (k + 1)..Len(log) : ~IsTextWrite(j, c)
               /\ calls[c].result \in {"running", "raised"}
               /\ calls[c].result = "raised" =>
                     /\ exc = "BleakError"
                     /\ pc \in {"main_finally", "cap_finally", "exited"}

C3_Witness ==
    \E k \in failed :
        /\ log[k].ch = "text"
        /\ calls[log[k].call].result = "raised"
        /\ Len(Written(log[k].call)) < calls[log[k].call].size
        /\ Cardinality(TextWrites(log[k].call)) >= 2
        /\ pc = "exited"

\* the connect of this run succeeded
ConnectSucceeded == pc # "main_connect" /\ exc # "SystemExit"

\* C4: after a successful connect the chunk size is min(MTU - 3, 500): 20
\* for the MTU 23 and 500 for every MTU from 503 up, and it stays that for
\* the rest of the connection.
C4_ChunkSizeFromMtu ==
    ConnectSucceeded =>
        /\ chunk_size = (IF mtu - 3 < 500 THEN mtu - 3 ELSE 500)
        /\ mtu = 23 => chunk_size = 20
        /\ mtu >= 503 => chunk_size = 500

C4_Witness ==
    /\ ConnectSucceeded
    /\ mtu = 517
    /\ chunk_size = 500
    /\ pc = "exited"

C6_PacingBySize ==
    \A c \in 1..Len(calls) :
        (~calls[c].slow /\ calls[c].result # "not_connected") =>
            LET L == calls[c].size
            IN /\ \A j \in Sleeps(c) :
                     /\ L > 500
                     /\ log[j].ms = (IF L > 1000 THEN 5 ELSE 2)
               /\ \A k \in TextWrites(c) :
                     (L > 500 /\ k < Len(log)) => IsSleep(k + 1, c)

C6_Witness ==
    \E c \in 1..Len(calls) :
        /\ ~calls[c].slow
        /\ calls[c].size = 1000
        /\ calls[c].result = "returned"
        /\ \E j \in Sleeps(c) : log[j].ms = 2

Range(f) == {f[x] : x \in DOMAIN f}

CeilDiv(a, b) == (a + b - 1) \div b

C8_TextBeforeKey ==
    [][(/\ pc = "cap_top"
        /\ pc' # "cap_top"
        /\ LoopCondition
        /\ text_queue # <<>>
        /\ key_queue # <<>>)
       => (/\ cur' = Head(text_queue)
           /\ text_queue' = Tail(text_queue)
           /\ key_queue' = key_queue
           /\ pc' = "st_await"
           /\ Len(log') = Len(log) + 1
           /\ log'[Len(log')].op = "write"
           /\ log'[Len(log')].ch = "text"
           /\ log'[Len(log')].item = Head(text_queue).id)]_vars

C8_Witness ==
    /\ pc = "st_await"
    /\ cur.kind = "text"
    /\ st.i = 0
    /\ key_queue # <<>>
    /\ Head(key_queue).id < cur.id

\* C9 as claimed: a key event leaves the key queue only at a moment when
\* the text queue is empty.
C9_KeyOnlyWhenTextEmpty ==
    [][Len(key_queue') < Len(key_queue) => text_queue = <<>>]_vars

\* C10: the raw-key reports go out in the order their events were enqueued
\* and the clipboard texts in the order they were enqueued, no entry twice
\* and none behind a younger one that is still queued.
C10_FifoPerQueue ==
    /\ \A a, b \in HidWrites : a < b => log[a].item < log[b].item
    /\ \A a \in HidWrites : \A q \in 1..Len(key_queue) : log[a].item < key_queue[q].id
    /\ \A a, b \in 1..Len(log) :
          (a < b /\ log[a].ch = "text" /\ log[b].ch = "text") =>
              /\ log[a].item <= log[b].item
              /\ log[a].item = log[b].item => log[a].call = log[b].call
    /\ \A a \in 1..Len(log) : \A q \in 1..Len(text_queue) :
          log[a].ch = "text" => log[a].item < text_queue[q].id

C10_Witness ==
    \E a, b \in HidWrites :
        /\ a < b
        /\ a \in Range(received)
        /\ b \in Range(received)
        /\ log[a].data # log[b].data

\* C11 as claimed: a failed send of a dequeued item is caught at that event
\* and the consumer loop goes on, so the loop is left only once its
\* condition (running, a client, connected) no longer holds.
C11_SendFailureKeepsLoop ==
    pc = "cap_finally" => ~LoopCondition

\* the link dropped and _on_disconnect has run, while the coroutine is in
\* text mode or in the capture loop
DisconnectSignalled ==
    /\ client = "obj"
    /\ ~connected
    /\ ~cb_pending
    /\ pc \in {"st_await", "st_sleep", "cap_top", "cap_key_wait", "cap_hid_await"}

\* C12 as claimed: once the disconnect callback has run the client attempts
\* no further transport write, the remaining chunks of a send_text call in
\* progress included.
C12_NoWriteAfterDisconnect ==
    [][DisconnectSignalled =>
          ~(Len(log') > Len(log) /\ log'[Len(log')].op = "write")]_vars

\* a stop request (SIGINT, or the disconnect callback) has cleared the
\* running flag while capture mode is active
StopRequested == listener = "started" /\ ~running

\* the pipeline is stopped: listener detached, session disconnected, main
\* has returned
Stopped == listener = "stopped" /\ ~connected /\ pc = "exited"

\* C13: once the running flag is cleared during capture, the consumer loop
\* leaves (after the poll timeout or the send in progress), the listener is
\* detached and the session is disconnected, whatever the queues hold.
C13_StopLeadsToStopped == StopRequested ~> Stopped

C13_Witness ==
    /\ pc = "cap_finally"
    /\ ~running
    /\ connected
    /\ exc = "none"
    /\ text_queue # <<>>
    /\ key_queue # <<>>

\* capture_mode has ended, by whichever exit of the consumer loop
CaptureEnded == listener # "none" /\ pc \in {"main_finally", "exited"}

\* C14 as claimed: when the capture pipeline has stopped the listener is
\* detached and both queues are empty.
C14_StoppedQueuesEmpty ==
    CaptureEnded =>
        /\ listener = "stopped"
        /\ key_queue = <<>>
        /\ text_queue = <<>>

\* the bit that the MOD_* constants give each modifier key
OwnBit(name) ==
    CASE name = "ctrl_l" -> MOD_LCTRL
      [] name = "ctrl_r" -> MOD_RCTRL
      [] name \in {"shift_l", "shift"} -> MOD_LSHIFT
      [] name = "shift_r" -> MOD_RSHIFT
      [] name \in {"alt_l", "alt"} -> MOD_LALT
      [] name = "alt_r" -> MOD_RALT
      [] name \in {"cmd_l", "cmd"} -> MOD_LGUI
      [] name = "cmd_r" -> MOD_RGUI

IsModifierKey(key) == key.enum /\ key.v \in ModifierKeyNames

\* the step that hands the event to its callback
Delivered == nevents' = nevents + 1

\* C15 as claimed: a press of a modifier key sets exactly that key's own
\* bit of the modifier byte, and its release clears exactly that bit.
C15_OwnBitOnly ==
    [][(Delivered /\ IsModifierKey(event.key)) =>
          modifiers' = (IF event.kind = "press"
                        THEN SetBit(modifiers, OwnBit(event.key.v))
                        ELSE ClearBit(modifiers, OwnBit(event.key.v)))]_vars

\* C16: a press or a release of a modifier key changes nothing but the
\* modifier byte: no entry is added to either queue and no transport call
\* is made.
C16_ModifierEventsOnlyMask ==
    [][(Delivered /\ IsModifierKey(event.key)) =>
          /\ key_queue' = key_queue
          /\ text_queue' = text_queue
          /\ log' = log
          /\ inflight' = inflight]_vars

C16_Witness ==
    /\ nevents = 1
    /\ event = PressOf(EnumKey("shift_r"), NoClip)
    /\ modifiers = MOD_LGUI + MOD_RSHIFT
    /\ key_queue = <<>>
    /\ text_queue = <<>>

GuiHeld(m) == HasBit(m, MOD_LGUI) \/ HasBit(m, MOD_RGUI)

\* C17: with a GUI key down, a press of 'v' puts the clipboard on the text
\* queue when it is non-empty and puts nothing when it is empty or could
\* not be read, and never puts a key event; a press of 'c' puts nothing on
\* either queue.
C17_PasteAndCopy ==
    (nevents = 1 /\ event.kind = "press" /\ GuiHeld(modifiers)) =>
        /\ event.key = CharKey("v") =>
              /\ key_queue = <<>>
              /\ text_queue = (IF event.clip.ok /\ event.clip.text # <<>>
                               THEN <<TextItem(1, event.clip.text)>>
                               ELSE <<>>)
        /\ event.key = CharKey("c") =>
              /\ key_queue = <<>>
              /\ text_queue = <<>>

C17_Witness ==
    /\ nevents = 1
    /\ event = PressOf(CharKey("v"), [ok |-> TRUE, text |-> <<66, 233>>])
    /\ held = {"cmd_r", "shift_l"}
    /\ text_queue = <<TextItem(1, <<66, 233>>)>>
    /\ key_queue = <<>>

\* C18 as claimed: a key event enqueued by a press made with a GUI key
\* down carries no GUI bit and carries the left-Ctrl bit, for a special key
\* and for a character key alike.
C18_GuiRemappedToCtrl ==
    (nevents = 1 /\ event.kind = "press" /\ GuiHeld(modifiers) /\ key_queue # <<>>) =>
        /\ ~HasBit(key_queue[1].mods, MOD_LGUI)
        /\ ~HasBit(key_queue[1].mods, MOD_RGUI)
        /\ HasBit(key_queue[1].mods, MOD_LCTRL)

SpecialCodes == {SpecialKeycode(EnumKey(n)) : n \in SpecialKeyNames}

\* C19: every event in the key queue has a keycode that is not 0 and is a
\* value of the keycode table or of the special-key mapping; a press that
\* resolves to no keycode enqueues nothing.
C19_NoZeroKeycode ==
    /\ \A i \in 1..Len(key_queue) :
          /\ key_queue[i].keycode # 0
          /\ key_queue[i].keycode \in Range(MAC_KEY_TO_HID) \cup SpecialCodes
    /\ (nevents = 1 /\ event.kind = "press" /\ event.key.enum
           /\ event.key.v \in OtherKeyNames) => key_queue = <<>>

C19_Witness ==
    /\ nevents = 1
    /\ event = PressOf(CharKey("?"), NoClip)
    /\ Len(key_queue) = 1
    /\ key_queue[1].keycode = 56

\* C20: every base character of the shift table has a keycode in the
\* keycode table; send_keys sends a character of the shift table as that
\* keycode with the left-Shift bit, and on_press enqueues it as that
\* keycode with the left-Shift bit set.
C20_ShiftTable ==
    /\ \A c \in DOMAIN SHIFT_CHARS :
          /\ SHIFT_CHARS[c] \in DOMAIN MAC_KEY_TO_HID
          /\ MAC_KEY_TO_HID[SHIFT_CHARS[c]] # 0
          /\ SendKeysChar(c) = SendKey(MOD_LSHIFT, MAC_KEY_TO_HID[SHIFT_CHARS[c]])
    /\ (nevents = 1 /\ event.kind = "press" /\ ~event.key.enum
           /\ event.key.v \in DOMAIN SHIFT_CHARS) =>
          /\ Len(key_queue) = 1
          /\ key_queue[1].keycode = MAC_KEY_TO_HID[SHIFT_CHARS[event.key.v]]
          /\ HasBit(key_queue[1].mods, MOD_LSHIFT)
          /\ text_queue = <<>>

C20_Witness ==
    /\ nevents = 1
    /\ event = PressOf(CharKey("~"), NoClip)
    /\ held = {"alt_r"}
    /\ key_queue = <<KeyItem(1, MOD_RALT + MOD_LSHIFT, 53)>>

\* the key resolves to no keycode: no modifier, no special key, and its
\* character (the base character, in lower case) or its name is no key of
\* the keycode table
UnmappedKey(key) ==
    /\ ~IsModifierKey(key)
    /\ ~(key.enum /\ key.v \in SpecialKeyNames)
    /\ LET base == IF key.v \in DOMAIN SHIFT_CHARS THEN SHIFT_CHARS[key.v] ELSE key.v
       IN (IF base \in DOMAIN LowerTable THEN LowerTable[base] ELSE base)
              \notin DOMAIN MAC_KEY_TO_HID

\* C21: a press of a key with no entry in the keycode table puts nothing on
\* either queue and raises nothing: queues and modifier byte stay as they
\* were, and the listener stays attached and the consumer undisturbed.
C21_UnmappedKeyDropped ==
    [][(Delivered /\ event.kind = "press" /\ UnmappedKey(event.key)) =>
          /\ key_queue' = key_queue
          /\ text_queue' = text_queue
          /\ modifiers' = modifiers
          /\ listener' = "started"
          /\ exc' = "none"
          /\ pc' = pc
          /\ running']_vars

C21_Witness ==
    /\ nevents = 1
    /\ event = PressOf(EnumKey("f1"), NoClip)
    /\ held = {"cmd_l", "shift_r"}
    /\ modifiers = MOD_LGUI + MOD_RSHIFT
    /\ key_queue = <<>>
    /\ text_queue = <<>>

\* the consumer took a key event off the queue and called send_hid_key
SendHidKeyCalled == pc = "cap_key_wait" /\ pc' # pc /\ key_queue' # key_queue

\* C25: send_hid_key on a connected session issues exactly one write on the
\* raw-key channel, of the two bytes (modifiers, keycode), with no response
\* asked for; on a session that is not connected it writes nothing and
\* raises nothing.  No key event is ever written twice.
C25_SendHidKey ==
    /\ [][SendHidKeyCalled =>
             LET item == Head(key_queue)
             IN IF client # "none" /\ connected
                THEN /\ log' = Append(log, WriteEvent("hid", <<item.mods, item.keycode>>,
                                                      FALSE, 0, item.id))
                     /\ Len(log'[Len(log')].data) = 2
                ELSE /\ log' = log
                     /\ exc' = exc
                     /\ pc' = "cap_top"]_vars
    /\ [](\A i, j \in HidWrites : log[i].item = log[j].item => i = j)

C25_Witness ==
    /\ \E j \in HidWrites : j \in Range(received) /\ log[j].item < cur.id
    /\ cur.kind = "key"
    /\ \A j \in HidWrites : log[j].item # cur.id
    /\ ~connected
    /\ pc = "cap_top"
    /\ exc = "none"

\* main's finally block called disconnect()
DisconnectCalled == pc = "main_finally" /\ pc' = "exited"

\* C26: disconnect on a client that never connected, whose connect failed
\* or whose link is already down calls nothing on the transport and raises
\* nothing; a second disconnect right after the first calls nothing on the
\* transport and leaves the state of the first.
C26_DisconnectIdempotent ==
    [][DisconnectCalled =>
          /\ exc' = exc
          /\ ~connected'
          /\ log' = log
          /\ (client = "none" \/ ~connected) =>
                 (disconnects' = disconnects /\ connected' = connected)
          /\ (client # "none" /\ connected) => disconnects' = disconnects + 1
          /\ LET again == Disconnect(client, connected')
             IN ~again.transport /\ again.connected = connected']_vars

C26_Witness ==
    /\ pc = "exited"
    /\ client = "obj"
    /\ cb_pending
    /\ ~connected
    /\ log # <<>>
    /\ disconnects = 0

\* C27 as claimed: the run ends with exit code 1 exactly when the
\* connection failed (sys.exit(1) after scan_and_connect) and with 0 on
\* every other path, a failed chunk write included.
C27_ExitCodeByCause ==
    pc = "exited" => exit_code = (IF exc = "SystemExit" THEN 1 ELSE 0)

\* C28: when discovery finds no device or connect fails, the run is
\* aborted with the chunk size at its previous value and without a single
\* write or send_text call; it ends with exit code 1.
C28_ConnectFailureAborts ==
    exc = "SystemExit" =>
       /\ ~connected
       /\ chunk_size = DEFAULT_CHUNK_SIZE
       /\ log = <<>>
       /\ calls = <<>>
       /\ pc \in {"main_finally", "exited"}
       /\ pc = "exited" => exit_code = 1

C28_Witness ==
    /\ pc = "exited"
    /\ exc = "SystemExit"
    /\ client = "obj"
    /\ mtu = 503
    /\ exit_code = 1

\* C30: no step of the consumer changes the modifier byte; a queued key
\* event is never altered; the two bytes written for a key are those of the
\* event as the press enqueued it, whatever the modifier byte is by then.
C30_SnapshotSent ==
    [][/\ (nevents' = nevents /\ pc # "main_dispatch") => modifiers' = modifiers
       /\ \/ key_queue' = key_queue
          \/ key_queue # <<>> /\ key_queue' = Tail(key_queue)
          \/ /\ Delivered
             /\ Len(key_queue') = Len(key_queue) + 1
             /\ SubSeq(key_queue', 1, Len(key_queue)) = key_queue
             /\ \E key \in CaptureKeys, clip \in Clipboards :
                   LET r == OnPress(key, modifiers, clip)
                   IN r.push = "key"
                      /\ key_queue'[Len(key_queue')] =
                            KeyItem(nevents + 1, r.kmods, r.keycode)
       /\ SendHidKeyCalled /\ Len(log') > Len(log) =>
             log'[Len(log')].data = <<Head(key_queue).mods, Head(key_queue).keycode>>]_vars

C30_Witness ==
    /\ pc = "cap_hid_await"
    /\ IsHidWrite(Len(log))
    /\ log[Len(log)].data = <<MOD_LGUI, 4>>
    /\ modifiers = 0
    /\ cur.mods = MOD_LGUI

\* the allow-list of the file name rule: A-Z, a-z, 0-9, '.', '-', '_', and
\* for Linux also '/'
AllowList(os) ==
    AsciiLetters \cup AsciiDigits \cup {".", "-", "_"}
       \cup (IF os = "linux" THEN {"/"} ELSE {})

SaveStarted == pc = "save_typing"

\* C22 as claimed: the name a save operation puts into its command holds
\* only characters of the allow-list, and a file name of which the
\* allow-list leaves nothing is replaced by the default name.
C22_AllowListOnly ==
    SaveStarted =>
       /\ Range(safe_filename) \subseteq AllowList(job.os)
       /\ (\A i \in 1..Len(job.filename) : job.filename[i] \notin AllowList(job.os))
             => safe_filename = DefaultName(job.binary)

NoSeparatorOrSpace(name) == \A i \in 1..Len(name) : name[i] \notin {"/", "\\", " "}

\* C23 as claimed: the Windows rule turns "../../evil .sh" into "evilsh",
\* and no Windows-sanitized name holds '/', a backslash or a space.
C23_EvilBecomesEvilsh ==
    (SaveStarted /\ job.os = "windows") =>
       /\ job.filename = EvilName => safe_filename = <<"e", "v", "i", "l", "s", "h">>
       /\ NoSeparatorOrSpace(safe_filename)

\* C23 corrected: the Windows rule keeps the dots, so "../../evil .sh"
\* becomes "....evil.sh"; no Windows-sanitized name holds '/', a backslash
\* or a space.
C23_EvilKeepsDots ==
    (SaveStarted /\ job.os = "windows") =>
       /\ job.filename = EvilName =>
             safe_filename = <<".", ".", ".", ".", "e", "v", "i", "l", ".", "s", "h">>
       /\ NoSeparatorOrSpace(safe_filename)

C23_Witness ==
    /\ SaveStarted
    /\ job.os = "windows"
    /\ job.filename = EvilName
    /\ Len(safe_filename) = 11

\* the file name with the characters outside '.-_/' and the alphanumerics
\* removed
Filtered == Filter(job.filename, LinuxKept)

\* C24: a Linux-sanitized name never begins with '/': a name whose
\* filtered form begins with '/' is replaced as a whole by the default
\* name, and any other non-empty filtered form is used as it is, its inner
\* '/' included.
C24_NoLeadingSlash ==
    (SaveStarted /\ job.os = "linux") =>
       /\ safe_filename # <<>>
       /\ safe_filename[1] # "/"
       /\ (Filtered # <<>> /\ Filtered[1] = "/") => safe_filename = DefaultName(job.binary)
       /\ (Filtered # <<>> /\ Filtered[1] # "/") => safe_filename = Filtered

C24_Witness ==
    /\ SaveStarted
    /\ job.os = "linux"
    /\ job.filename = <<"/", "e", "t", "c", "/", "x">>
    /\ job.binary
    /\ safe_filename = FileBin

\* C29 as claimed: no two Linux save invocations use the same delimiter,
\* and the delimiter of an invocation is no line of its payload.
C29_DelimiterUnique ==
    /\ \A i, j \in 1..Len(delimiters) : i # j => delimiters[i] # delimiters[j]
    /\ (SaveStarted /\ job.os = "linux") => delimiter \notin Range(job.lines)

\* the consumer loop is inside send_text for a text it dequeued
InCaptureSend == pc \in {"st_await", "st_sleep"} /\ st.ret = "cap_top"

\* C31: a stop request does not cut a send short.  When the running flag
\* is false while the consumer is inside send_text, the call is left only
\* by the exception of a failed write or by returning with every byte of
\* the text written; a text of a run that ended without an exception was
\* written whole.
C31_StopDoesNotTruncate ==
    /\ [][(InCaptureSend /\ ~running /\ pc' \notin {"st_await", "st_sleep"}) =>
             \/ /\ pc' = "cap_finally"
                /\ exc' = "BleakError"
                /\ st.w \in failed
             \/ /\ pc' = "cap_top"
                /\ calls'[Len(calls)].result = "returned"
                /\ Written(Len(calls))' = st.encoded]_vars
    /\ [](CaptureEnded /\ exc = "none" =>
             \A c \in 1..Len(calls) :
                 calls[c].result # "not_connected" =>
                     Len(Written(c)) = calls[c].size)

C31_Witness ==
    /\ InCaptureSend
    /\ ~running
    /\ connected
    /\ ~cb_pending
    /\ st.i = 500
    /\ st.w \in inflight
    /\ Len(st.encoded) = 501

\* the keycodes of the whitespace, control and navigation keys
FixedKeycode ==
    "space" :> 44 @@ "enter" :> 40 @@ "backspace" :> 42 @@ "tab" :> 43 @@
    "esc" :> 41 @@ "delete" :> 76 @@ "up" :> 82 @@ "down" :> 81 @@
    "left" :> 80 @@ "right" :> 79 @@ "home" :> 74 @@ "end" :> 77 @@
    "page_up" :> 75 @@ "page_down" :> 78

\* the modifier byte as a key event carries it: a held GUI key is sent as
\* left Ctrl
SnapshotOf(m) ==
    IF GuiHeld(m) THEN SetBit(ClearBit(ClearBit(m, MOD_LGUI), MOD_RGUI), MOD_LCTRL) ELSE m

\* C32: a press of space, enter, backspace, tab, esc, delete, an arrow,
\* home, end, page up or page down puts exactly one event on the key queue:
\* the fixed keycode of that key with the snapshot of the current modifier
\* byte (a held Cmd sent as Ctrl), whatever the character and shift tables
\* hold; the text queue and the modifier byte are untouched.
C32_SpecialKeysFirst ==
    (nevents = 1 /\ event.kind = "press" /\ event.key.enum
        /\ event.key.v \in DOMAIN FixedKeycode) =>
          /\ key_queue = <<KeyItem(1, SnapshotOf(HeldMask(held)), FixedKeycode[event.key.v])>>
          /\ text_queue = <<>>
          /\ modifiers = HeldMask(held)

C32_Witness ==
    /\ nevents = 1
    /\ event = PressOf(EnumKey("page_down"), NoClip)
    /\ held = {"shift_r", "alt_l"}
    /\ key_queue = <<KeyItem(1, MOD_RSHIFT + MOD_LALT, 78)>>

\* the transport writes issued so far, in issue order, as <<channel, data>>
WritesOf(lg) ==
    LET w == SelectSeq(lg, LAMBDA e : e.op = "write")
    IN [i \in 1..Len(w) |-> <<w[i].ch, w[i].data>>]

\* the raw-key reports that type a string: the character's keycode, with
\* left Shift for a character of the shift table
ReportsTyping(text) ==
    [i \in 1..Len(text) |->
        <<"hid", IF text[i] \in DOMAIN SHIFT_CHARS
                 THEN <<MOD_LSHIFT, MAC_KEY_TO_HID[SHIFT_CHARS[text[i]]]>>
                 ELSE <<0, MAC_KEY_TO_HID[text[i]]>>>>]

EnterReport == <<"hid", <<0, 40>>>>

\* the payload cut into chunks of the session's chunk size
RECURSIVE ChunksOf(_)
ChunksOf(bytes) ==
    IF bytes = <<>> THEN <<>>
    ELSE <<<<"text", SubSeq(bytes, 1, Min(chunk_size, Len(bytes)))>>>>
         \o ChunksOf(SubSeq(bytes, Min(chunk_size, Len(bytes)) + 1, Len(bytes)))

\* the writes of a Linux save in the order of the claim
ExpectedWrites ==
    ReportsTyping(HereDocCommand(job.binary, safe_filename, delimiter))
    \o <<EnterReport>>
    \o ChunksOf(Content(job.lines))
    \o <<EnterReport>>
    \o ReportsTyping(delimiter)
    \o <<EnterReport>>

IsPrefix(a, b) == Len(a) <= Len(b) /\ a = SubSeq(b, 1, Len(a))

\* C33: the writes of save_file_linux and save_binary_linux are, at every
\* moment, a prefix of: the reports typing the here-document command, one
\* Enter, the payload's chunks on the text channel, one Enter, the reports
\* typing the delimiter, one Enter; the whole of it when the operation
\* returns on a session that stayed connected.  A raw-key report is never
\* issued while a payload chunk is unacknowledged.
C33_LinuxSaveOrder ==
    pc # "save_call" =>
       /\ IsPrefix(WritesOf(log), ExpectedWrites)
       /\ (pc \in {"main_finally", "exited"} /\ exc = "none" /\ client # "none"
              /\ (connected \/ disconnects = 1) /\ ~cb_pending)
             => WritesOf(log) = ExpectedWrites
       /\ \A k \in inflight : \A j \in (k + 1)..Len(log) : log[j].op # "write"

C33_Witness ==
    /\ pc = "exited"
    /\ exc = "none"
    /\ disconnects = 1
    /\ ~job.binary
    /\ mtu = 5
    /\ Len(job.lines) = 3
    /\ WritesOf(log) = ExpectedWrites
    /\ Cardinality(TextWrites(1)) = 6

\* the characters that have a keycode of their own or through the shift
\* table
MappedChars == DOMAIN MAC_KEY_TO_HID \cup DOMAIN SHIFT_CHARS

\* send_keys types the string whole: one report per character, in order,
\* each the report of its character
TypedWhole(text) ==
    /\ Len(SendKeys(text)) = Len(text)
    /\ \A i \in 1..Len(text) :
          /\ text[i] \in MappedChars
          /\ SendKeys(text)[i].keycode # 0
          /\ <<"hid", <<SendKeys(text)[i].mods, SendKeys(text)[i].keycode>>>>
                = ReportsTyping(text)[i]

Base64Chars == AsciiLetters \cup AsciiDigits \cup {"+", "/", "="}

PowershellWord == <<"p", "o", "w", "e", "r", "s", "h", "e", "l", "l">>
EncodedCommandPrefix ==
    PowershellWord \o <<" ", "-", "E", "n", "c", "o", "d", "e", "d", "C", "o", "m",
                         "m", "a", "n", "d", " ">>

\* the fixed parts of the Windows command lines are typed whole
WindowsCommandsTyped ==
    /\ TypedWhole(PowershellWord)
    /\ TypedWhole(EncodedCommandPrefix)
    /\ \A c \in Base64Chars : TypedWhole(<<c>>)

\* C37 as claimed: send_keys types every command line of the save
\* operations whole, one raw-key report per character and in order: the
\* word powershell, the -EncodedCommand prefix, every character of base64,
\* and the here-document command and delimiter of each Linux save.
C37_CommandsTypedWhole ==
    /\ WindowsCommandsTyped
    /\ (SaveStarted /\ job.os = "linux") =>
          /\ TypedWhole(HereDocCommand(job.binary, safe_filename, delimiter))
          /\ TypedWhole(delimiter)

\* C35 as claimed: once a stop was requested (SIGINT handled, or the
\* disconnect notification delivered), at whatever point of the run, the
\* running flag is false and stays false.
C35_StopRequestSticks == stop_requested => ~running

\* send_text is called on a session without a client or not connected
SendTextCalledUnconnected ==
    Len(calls') = Len(calls) + 1 /\ (client = "none" \/ ~connected)

\* C36: send_text on a session that has no client or is not connected
\* returns at once: no write and no sleep is issued, nothing is raised,
\* and chunk size, queues and running flag are as before; the call never
\* writes later either.
C36_SendTextUnconnected ==
    /\ [][SendTextCalledUnconnected =>
             /\ calls'[Len(calls')].result = "not_connected"
             /\ log' = log
             /\ inflight' = inflight
             /\ exc' = exc
             /\ st' = st
             /\ chunk_size' = chunk_size
             /\ key_queue' = key_queue
             /\ text_queue' = text_queue
             /\ running' = running
             /\ pc' = "main_finally"]_vars
    /\ [](\A c \in 1..Len(calls) :
             calls[c].result = "not_connected" => TextWrites(c) = {} /\ Sleeps(c) = {})

C36_Witness ==
    /\ pc = "exited"
    /\ Len(calls) = 1
    /\ calls[1].result = "not_connected"
    /\ calls[1].text # <<>>
    /\ log = <<>>
    /\ exc = "none"
    /\ exit_code = 0
\* C34: followed through the consumer loop under fair scheduling of the main
\* coroutine, an entry pushed onto the text queue is in the end dequeued and
\* its send returns, or the loop stops first; the same is claimed of an
\* entry pushed onto the key queue, also while the text queue is refilled
\* for ever.
LoopStopped == pc \in {"cap_finally", "main_finally", "exited"}
Served(kind) == cur.kind = kind /\ cur.id = 1 /\ pc = "cap_top"
TextEntryServed == Marked(text_queue) ~> (Served("text") \/ LoopStopped)
KeyEntryServed == Marked(key_queue) ~> (Served("key") \/ LoopStopped)
C34_NoEntryStarves == TextEntryServed /\ KeyEntryServed

\* C34, as the loop behaves: a text entry is always served; a key entry is
\* served if the loop reaches its key poll again and again, which it does
\* only when it finds the text queue empty.
C34_TextFirstLiveness ==
    /\ TextEntryServed
    /\ ([]<>(pc = "cap_key_wait")) => KeyEntryServed
C34_Witness ==
    /\ Marked(key_queue)
    /\ pc = "loop_send" /\ cur.kind = "text"
    /\ text_queue # <<>>

\* C39 as claimed: capture mode is entered exactly when --capture is passed
\* or neither --text nor --file is given with a value; a run that connected and ended
\* without an error ran exactly one of file mode, text mode and capture
\* mode; and at the end of every run the session is not connected.
DispatchStep == pc = "main_dispatch" /\ pc' # "main_dispatch"
CaptureEntered == listener' = "started"
MainSendCalls == {c \in 1..Len(calls) : calls[c].item = 0}
ModesRun == (IF listener # "none" THEN 1 ELSE 0) + Cardinality(MainSendCalls)
C39_ModeSelection ==
    /\ [][DispatchStep =>
             (CaptureEntered <=>
                 (args.capture \/ (~Truthy(args.text_opt) /\ ~Truthy(args.file_opt))))]_vars
    /\ [](pc = "exited" /\ exc = "none" => ModesRun = 1)
    /\ [](pc = "exited" => ~connected)

\* C38 as claimed: in the menu bar app at most one send flow is at work at
\* any time, and whenever the sending flag is set it is in the end cleared
\* again with no flow left connected.
AtWork(i) == flows[i].pc \in {"scheduled", "connect", "write", "finally", "disconnect"}
FlowsAtWork == {i \in 1..Len(flows) : AtWork(i)}
NoFlowConnected == \A i \in 1..Len(flows) : ~flows[i].connected
C38_OneFlowThenIdle ==
    /\ [](Cardinality(FlowsAtWork) <= 1)
    /\ sending ~> (~sending /\ NoFlowConnected)

====
